---------------------------- MODULE Spec2Model ----------------------------
(***************************************************************************)
(* A model of pygurobi (src/pygurobi/pygurobi.py): helper functions that   *)
(* look up, filter, read and edit the variables and constraints of a       *)
(* Gurobi model by parsing their names, set[i1,...,iN] and set(i1,...,iN). *)
(*                                                                         *)
(* Strings are sequences of one-character strings, so that split, strip,   *)
(* slicing, int() and lower() are computed character by character as the   *)
(* Python code computes them.  Entities (gurobipy Var and Constr objects)  *)
(* are identified by small integers; their names and attributes are state. *)
(***************************************************************************)
EXTENDS Integers, Sequences, FiniteSets, TLC

VARIABLES
    mVars,      \* model.getVars(): the variables of the model, in model order
    mCons,      \* model.getConstrs(): the constraints of the model, in model order
    vName,      \* v.varName of every variable object
    cName,      \* c.constrName of every constraint object
    vAttr,      \* the attributes LB, UB, Obj, X of every variable object
    cAttr,      \* the attributes RHS, Pi of every constraint object
    built,      \* the set name and index list each entity's name was composed from
    edits,      \* the number of calls that have edited the model
    mCalls,     \* the calls made on the model object during the call in progress
    status,     \* model.status
    files,      \* the files on disk: file name -> content
    last        \* the last helper call: its arguments, result and exception

vars == <<mVars, mCons, vName, cName, vAttr, cAttr, built, edits,
          mCalls, status, files, last>>

-----------------------------------------------------------------------------
(* Bounds of the model. *)

\* the largest number of variables (and of constraints) a model starts with
MaxEntities == 3

\* the largest number of index values in a composed name
MaxIndices == 3

\* the largest number of editing calls in a run
MaxEdits == 1

-----------------------------------------------------------------------------
(* Python strings. *)

CON_BRACKET_L == "("
CON_BRACKET_R == ")"
VAR_BRACKET_L == "["
VAR_BRACKET_R == "]"

\* the characters of the model in ASCII order: cmp() of two str objects
AsciiOrder ==
    << " ", "(", ")", "+", ",", "-",
       "0", "1", "2", "3", "4", "5", "6", "7", "8", "9",
       "A", "B", "C", "D", "E", "F", "G", "H", "I", "J", "K", "L", "M",
       "N", "O", "P", "Q", "R", "S", "T", "U", "V", "W", "X", "Y", "Z",
       "[", "]",
       "a", "b", "c", "d", "e", "f", "g", "h", "i", "j", "k", "l", "m",
       "n", "o", "p", "q", "r", "s", "t", "u", "v", "w", "x", "y", "z" >>

Ord(c) == CHOOSE i \in 1..Len(AsciiOrder) : AsciiOrder[i] = c

DigitChars == <<"0", "1", "2", "3", "4", "5", "6", "7", "8", "9">>

IsDigit(c) == \E i \in 1..10 : DigitChars[i] = c

DigitVal(c) == (CHOOSE i \in 1..10 : DigitChars[i] = c) - 1

IsSpace(c) == c = " "

\* a < b for two str objects: lexicographic on the character codes
StrLess(a, b) ==
    \E k \in 1..(Len(a) + 1) :
        /\ k <= Len(b)
        /\ \A j \in 1..(k - 1) : a[j] = b[j]
        /\ \/ k = Len(a) + 1
           \/ Ord(a[k]) < Ord(b[k])

\* c in s, for a one-character string c
CharIn(c, s) == \E i \in 1..Len(s) : s[i] = c

\* sub in s: s has sub as a substring
StrIn(sub, s) ==
    \E i \in 0..(Len(s) - Len(sub)) :
        \A j \in 1..Len(sub) : s[i + j] = sub[j]

\* s.endswith(ext)
EndsWith(s, ext) ==
    /\ Len(s) >= Len(ext)
    /\ SubSeq(s, Len(s) - Len(ext) + 1, Len(s)) = ext

\* s.split(d) for a one-character separator d
RECURSIVE Split(_, _)
Split(s, d) ==
    IF ~CharIn(d, s)
    THEN <<s>>
    ELSE LET k == CHOOSE i \in 1..Len(s) :
                      s[i] = d /\ \A j \in 1..(i - 1) : s[j] # d
         IN  <<SubSeq(s, 1, k - 1)>> \o Split(SubSeq(s, k + 1, Len(s)), d)

\* s.strip()
Strip(s) ==
    LET keep == {i \in 1..Len(s) : ~IsSpace(s[i])}
    IN  IF keep = {} THEN <<>>
        ELSE LET lo == CHOOSE i \in keep : \A j \in keep : i <= j
                 hi == CHOOSE i \in keep : \A j \in keep : j <= i
             IN  SubSeq(s, lo, hi)

RECURSIVE DecVal(_)
DecVal(ds) ==
    IF ds = <<>> THEN 0
    ELSE 10 * DecVal(SubSeq(ds, 1, Len(ds) - 1)) + DigitVal(ds[Len(ds)])

\* int() of a run of digits, negated after a minus sign
IntOfDigits(negative, body) ==
    IF Len(body) > 0 /\ \A i \in 1..Len(body) : IsDigit(body[i])
    THEN [ok |-> TRUE, val |-> IF negative THEN 0 - DecVal(body) ELSE DecVal(body)]
    ELSE [ok |-> FALSE, val |-> 0]

\* int() of a string without white space around it
IntOfStripped(t) ==
    IF Len(t) > 0 /\ t[1] \in {"+", "-"}
    THEN IntOfDigits(t[1] = "-", Tail(t))
    ELSE IntOfDigits(FALSE, t)

\* int(s): [ok |-> FALSE] stands for the ValueError of a string that is no
\* optionally signed run of digits between optional white space
IntParse(s) == IntOfStripped(Strip(s))

RECURSIVE NatToStr(_)
NatToStr(n) ==
    IF n < 10 THEN <<DigitChars[n + 1]>>
    ELSE NatToStr(n \div 10) \o <<DigitChars[(n % 10) + 1]>>

\* str(n) of an int
IntToStr(n) == IF n < 0 THEN <<"-">> \o NatToStr(0 - n) ELSE NatToStr(n)

-----------------------------------------------------------------------------
(* Python values: an index value is an int or a str. *)

PyInt(n) == [t |-> "int", i |-> n, s |-> <<>>]
PyStr(x) == [t |-> "str", i |-> 0, s |-> x]

\* "{0}".format(v)
Format(v) == IF v.t = "int" THEN IntToStr(v.i) ELSE v.s

\* lst[index]: a negative index counts from the end; ok is FALSE for the
\* IndexError of an index out of range
PyItem(lst, index) ==
    LET k == IF index < 0 THEN Len(lst) + index + 1 ELSE index + 1
    IN  IF k \in 1..Len(lst) THEN [ok |-> TRUE, val |-> lst[k]]
        ELSE [ok |-> FALSE, val |-> <<>>]

-----------------------------------------------------------------------------
(* Names. *)

RECURSIVE JoinIndices(_)
JoinIndices(idx) ==
    IF idx = <<>> THEN <<>>
    ELSE IF Len(idx) = 1 THEN Format(idx[1])
    ELSE Format(idx[1]) \o <<",">> \o JoinIndices(Tail(idx))

\* "set[{0},{1}]".format(i0, i1): the name of the entity of set `set` with
\* the index list idx; a scalar entity (no index) is named by its set alone
ComposeName(set, idx, left, right) ==
    IF idx = <<>> THEN set
    ELSE set \o <<left>> \o JoinIndices(idx) \o <<right>>

\* value = int(value) if int() takes it, else value as it is; value.isdigit
\* is the bound method, always true, so int() is always tried
coerce_index_value(value, n) == IF n.ok THEN PyInt(n.val) ELSE PyStr(value)

\* the token of a variable's name without a bracket: without its last
\* character if it has the right bracket, else what follows the left bracket
strip_variable_bracket(value) ==
    IF CharIn(VAR_BRACKET_R, value) THEN SubSeq(value, 1, Len(value) - 1)
    ELSE IF CharIn(VAR_BRACKET_L, value) THEN Split(value, VAR_BRACKET_L)[2]
    ELSE value

variable_index_value(value) == coerce_index_value(value, IntParse(value))

variable_index_value_of(item) ==
    IF ~item.ok THEN [exc |-> "IndexError", val |-> PyStr(<<>>)]
    ELSE [exc |-> "none",
          val |-> variable_index_value(strip_variable_bracket(Strip(item.val)))]

\* get_variable_index_value(variable, index), of the variable's varName
get_variable_index_value(name, index) ==
    variable_index_value_of(PyItem(Split(name, ","), index))

\* the token of a constraint's name without a bracket
strip_constraint_bracket(value) ==
    IF CharIn(CON_BRACKET_R, value) THEN SubSeq(value, 1, Len(value) - 1)
    ELSE IF CharIn(CON_BRACKET_L, value) THEN Split(value, CON_BRACKET_L)[2]
    ELSE value

constraint_index_value(value) == coerce_index_value(value, IntParse(value))

constraint_index_value_of(item) ==
    IF ~item.ok THEN [exc |-> "IndexError", val |-> PyStr(<<>>)]
    ELSE [exc |-> "none",
          val |-> constraint_index_value(strip_constraint_bracket(Strip(item.val)))]

\* get_constraint_index_value(constraint, index), of the constraint's constrName
get_constraint_index_value(name, index) ==
    constraint_index_value_of(PyItem(Split(name, ","), index))

-----------------------------------------------------------------------------
(* Attributes. *)

\* s.lower()
UpperChars == SubSeq(AsciiOrder, Ord("A"), Ord("Z"))
LowerChars == SubSeq(AsciiOrder, Ord("a"), Ord("z"))

LowerChar(c) ==
    IF \E i \in 1..Len(UpperChars) : UpperChars[i] = c
    THEN LowerChars[CHOOSE i \in 1..Len(UpperChars) : UpperChars[i] = c]
    ELSE c

Lower(s) == [i \in 1..Len(s) |-> LowerChar(s[i])]

\* the attributes of a Gurobi variable
VAR_ATTRS ==
    << <<"L", "B">>,
       <<"U", "B">>,
       <<"O", "b", "j">>,
       <<"V", "T", "y", "p", "e">>,
       <<"V", "a", "r", "N", "a", "m", "e">>,
       <<"X">>,
       <<"X", "n">>,
       <<"R", "C">>,
       <<"B", "a", "r", "X">>,
       <<"S", "t", "a", "r", "t">>,
       <<"V", "a", "r", "H", "i", "n", "t", "V", "a", "l">>,
       <<"V", "a", "r", "H", "i", "n", "t", "P", "r", "i">>,
       <<"B", "r", "a", "n", "c", "h", "P", "r", "i", "o", "r", "i", "t", "y">>,
       <<"V", "B", "a", "s", "i", "s">>,
       <<"P", "S", "t", "a", "r", "t">>,
       <<"I", "I", "S", "L", "B">>,
       <<"I", "I", "S", "U", "B">>,
       <<"P", "W", "L", "O", "b", "j", "C", "v", "x">>,
       <<"S", "A", "O", "b", "j", "L", "o", "w">>,
       <<"S", "A", "O", "b", "j", "U", "p">>,
       <<"S", "A", "L", "B", "L", "o", "w">>,
       <<"S", "A", "L", "B", "U", "p">>,
       <<"S", "A", "U", "B", "L", "o", "w">>,
       <<"S", "A", "U", "B", "U", "p">>,
       <<"U", "n", "b", "d", "R", "a", "y">> >>

\* the attributes of a Gurobi constraint
CON_ATTRS ==
    << <<"S", "e", "n", "s", "e">>,
       <<"R", "H", "S">>,
       <<"C", "o", "n", "s", "t", "r", "N", "a", "m", "e">>,
       <<"P", "i">>,
       <<"S", "l", "a", "c", "k">>,
       <<"C", "B", "a", "s", "i", "s">>,
       <<"D", "S", "t", "a", "r", "t">>,
       <<"L", "a", "z", "y">>,
       <<"I", "I", "S", "C", "o", "n", "s", "t", "r">>,
       <<"S", "A", "R", "H", "S", "L", "o", "w">>,
       <<"S", "A", "R", "H", "S", "U", "p">>,
       <<"F", "a", "r", "k", "a", "s", "D", "u", "a", "l">> >>

get_variable_attrs == VAR_ATTRS

get_constraint_attrs == CON_ATTRS

\* check_attr without the comparison of the lower-cased strings
check_attr_exact(attr, attributes) ==
    \E i \in 1..Len(attributes) : attr = attributes[i]

\* check_attr(attr, attributes)
check_attr(attr, attributes) ==
    \E i \in 1..Len(attributes) :
        \/ attr = attributes[i]
        \/ Lower(attr) = Lower(attributes[i])

check_variable_attr(attr) == check_attr(attr, get_variable_attrs)

check_constraint_attr(attr) == check_attr(attr, get_constraint_attrs)

\* the names of the attributes the entities of the model carry
LB  == <<"L", "B">>
UB  == <<"U", "B">>
Obj == <<"O", "b", "j">>
X   == <<"X">>
RHS == <<"R", "H", "S">>
Pi  == <<"P", "i">>

\* getattr(entity, attr) on the attributes store: gurobipy finds an attribute
\* by its name in any case
GetAttr(store, e, attr) ==
    store[e][CHOOSE a \in DOMAIN store[e] : Lower(a) = Lower(attr)]

\* setattr(entity, attr, val)
SetAttr(store, e, attr, val) ==
    [store EXCEPT ![e] =
        [a \in DOMAIN store[e] |-> IF Lower(a) = Lower(attr) THEN val ELSE store[e][a]]]

\* the truth value of an argument: "" and 0 are false
Truthy(v) == IF v.t = "int" THEN v.i # 0 ELSE v.s # <<>>

\* the default "" of an argument that is not given
NotGiven == PyStr(<<>>)

-----------------------------------------------------------------------------
(* The entities of the models: what each name is composed from. *)

\* x[1,2], x[2,2], x[1,a], xy[1,2], y[3] and, for constraints,
\* x(1,2), x(2,2), x(1,a), xy(1,2), y(3)
EntityPool ==
    << [set |-> <<"x">>,      idx |-> <<PyInt(1), PyInt(2)>>,       pad |-> <<>>],
       [set |-> <<"x">>,      idx |-> <<PyInt(2), PyInt(2)>>,       pad |-> <<>>],
       [set |-> <<"x">>,      idx |-> <<PyInt(1), PyStr(<<"a">>)>>, pad |-> <<>>],
       [set |-> <<"x", "y">>, idx |-> <<PyInt(1), PyInt(2)>>,       pad |-> <<>>],
       [set |-> <<"y">>,      idx |-> <<PyInt(3)>>,                 pad |-> <<>>] >>

EntityIds == 1..Len(EntityPool)

\* the sequences of distinct entities, at most n long
DistinctSeqs(ids, n) ==
    UNION {{q \in [1..k -> ids] : \A i, j \in 1..k : i # j => q[i] # q[j]} :
           k \in 0..n}

\* the attributes of entity e before any call
InitVarAttr(e) == (LB :> 0) @@ (UB :> 2) @@ (Obj :> e % 2) @@ (X :> e % 3)
InitConAttr(e) == (RHS :> 1 + (e % 2)) @@ (Pi :> e % 3)

NoCall == [op |-> "none"]

\* no helper call is in progress: the caller is free to make the next one
Idle == last = NoCall

\* gp.GRB.status: a model that was read and not optimized yet is LOADED
LOADED == "LOADED"
OPTIMAL == "OPTIMAL"
INFEASIBLE == "INFEASIBLE"
UNBOUNDED == "UNBOUNDED"

\* a disk without files
NoFiles == <<>>

\* no call was made on the model object, and no file written
InitOutside ==
    /\ mCalls = <<>>
    /\ status = LOADED
    /\ files = NoFiles

Init ==
    /\ mVars \in DistinctSeqs(EntityIds, MaxEntities)
    /\ mCons = mVars
    /\ built = [e \in EntityIds |-> EntityPool[e]]
    /\ vName = [e \in EntityIds |->
                   ComposeName(EntityPool[e].set, EntityPool[e].idx,
                               VAR_BRACKET_L, VAR_BRACKET_R)]
    /\ cName = [e \in EntityIds |->
                   ComposeName(EntityPool[e].set, EntityPool[e].idx,
                               CON_BRACKET_L, CON_BRACKET_R)]
    /\ vAttr = [e \in EntityIds |-> InitVarAttr(e)]
    /\ cAttr = [e \in EntityIds |-> InitConAttr(e)]
    /\ edits = 0
    /\ InitOutside
    /\ last = NoCall

-----------------------------------------------------------------------------
(* Python containers. *)

\* the elements of a list
Elems(q) == {q[i] : i \in 1..Len(q)}

\* the empty dict; a dict is a function of its keys
EmptyDict == <<>>

\* d[k] = v
DictPut(d, k, v) == [x \in DOMAIN d \cup {k} |-> IF x = k THEN v ELSE d[x]]

\* the elements of q at the positions where flags is true, in order
KeepWhere(q, flags) ==
    LET at == SelectSeq([i \in 1..Len(q) |-> i], LAMBDA i : flags[i])
    IN  [k \in 1..Len(at) |-> q[at[k]]]

\* sorted(keys) of str keys
RECURSIVE SortedStrs(_)
SortedStrs(S) ==
    IF S = {} THEN <<>>
    ELSE LET m == CHOOSE k \in S : \A o \in S \ {k} : StrLess(k, o)
         IN  <<m>> \o SortedStrs(S \ {m})

-----------------------------------------------------------------------------
(* list_variables and list_constraints. *)

\* count_sets with a set's count started again at every entity of the set
RECURSIVE count_sets_restarts(_, _, _)
count_sets_restarts(names, bracket, sets) ==
    IF names = <<>> THEN sets
    ELSE LET set_name == Split(Head(names), bracket)[1]
         IN  count_sets_restarts(Tail(names), bracket, DictPut(sets, set_name, 1))

\* the loop of list_variables / list_constraints over the entities' names
RECURSIVE count_sets(_, _, _)
count_sets(names, bracket, sets) ==
    IF names = <<>> THEN sets
    ELSE LET set_name == Split(Head(names), bracket)[1]
         IN  count_sets(Tail(names), bracket,
                        IF set_name \notin DOMAIN sets
                        THEN DictPut(sets, set_name, 1)
                        ELSE [sets EXCEPT ![set_name] = @ + 1])

\* "{0}, {1}".format(name, number)
set_line(name, number) == name \o <<",", " ">> \o IntToStr(number)

\* the lines printed after the header, for sorted(sets.items())
set_lines(sets) ==
    LET keys == SortedStrs(DOMAIN sets)
    IN  [i \in 1..Len(keys) |-> set_line(keys[i], sets[keys[i]])]

list_variables ==
    LET sets == count_sets([i \in 1..Len(mVars) |-> vName[mVars[i]]],
                           VAR_BRACKET_L, EmptyDict)
    IN  /\ Idle
        /\ last' = [op |-> "list_variables", sets |-> sets, lines |-> set_lines(sets)]
        /\ UNCHANGED <<mVars, mCons, vName, cName, vAttr, cAttr, built, edits,
                       mCalls, status, files>>

list_constraints ==
    LET sets == count_sets([i \in 1..Len(mCons) |-> cName[mCons[i]]],
                           CON_BRACKET_L, EmptyDict)
    IN  /\ Idle
        /\ last' = [op |-> "list_constraints", sets |-> sets, lines |-> set_lines(sets)]
        /\ UNCHANGED <<mVars, mCons, vName, cName, vAttr, cAttr, built, edits,
                       mCalls, status, files>>

-----------------------------------------------------------------------------
(* Python calls and names. *)

\* the names bound in the module pygurobi.py: its imports, its constants and
\* its functions (a second def of a name replaces the first)
ModuleGlobals ==
    { "csv", "json", "gp",
      "CON_BRACKET_L", "CON_BRACKET_R", "VAR_BRACKET_L", "VAR_BRACKET_R",
      "VAR_ATTRS", "CON_ATTRS",
      "read_model", "reoptimize", "get_variable_attrs", "get_constraint_attrs",
      "list_constraints", "list_variables", "get_variables_multiple",
      "get_variables", "check_attr", "check_variable_attr",
      "check_constraint_attr", "get_variables_attr", "print_variables_attr",
      "set_variables_attr", "zero_all_objective_coeffs", "set_variables_bounds",
      "remove_variables_from_model", "variables_check",
      "get_variable_index_value", "get_linexp_from_variables",
      "sum_variables_by_index", "print_dict", "print_variables_sum_by_index",
      "get_variables_by_index", "filter_variables",
      "get_variables_by_index_values", "get_variables_by_two_indices",
      "sum_variables_by_two_indices", "print_two_indices_dict",
      "get_linexp_by_index", "get_constraints_multiple", "get_constraints",
      "constraints_check", "get_constraints_attr", "print_constraints_attr",
      "set_constraints_attr", "set_constraints_rhs_as_percent",
      "remove_constraints_from_model", "get_constraint_index_value",
      "get_constraints_by_index", "filter_constraints_by_index_value",
      "get_constraints_by_index_values", "get_grb_sense_from_string",
      "add_constraint_constant", "check_if_name_a_variable",
      "check_if_name_a_constraint", "add_constraint_variables",
      "graph_by_index", "graph_by_two_indices", "print_variables_to_csv",
      "print_variables_to_csv_by_index", "print_variables_to_json_by_index" }

\* the parameters of filter_variables, in order
filter_variables_params == <<"variables", "filter_values", "exclude">>

\* whether a call with npos positional arguments and the keyword arguments kw
\* binds: a keyword that names no parameter, or a parameter a positional
\* argument has bound already, is a TypeError
call_binds(params, npos, kw) ==
    \A k \in kw : \E i \in (npos + 1)..Len(params) : params[i] = k

\* the keys of a dict in iteration order: a CPython 2 dict of small
\* non-negative ints iterates in slot order, which is ascending
RECURSIVE dict_keys(_)
dict_keys(S) ==
    IF S = {} THEN <<>>
    ELSE LET m == CHOOSE k \in S : \A o \in S : k <= o
         IN  <<m>> \o dict_keys(S \ {m})

\* the orders in which a set of objects can iterate
Orders(S) ==
    {q \in [1..Cardinality(S) -> S] :
        \A i, j \in 1..Cardinality(S) : i # j => q[i] # q[j]}

Raise(e) == [exc |-> e, val |-> <<>>]
Return(v) == [exc |-> "none", val |-> v]

-----------------------------------------------------------------------------
(* Lookup and filters of variables. *)

RECURSIVE filter_variables_row(_, _, _)

\* one filter entry of a variable, with key the variable's index value
filter_variables_entry(key, v, filter_values, keys) ==
    IF key.exc # "none" THEN key.exc
    ELSE IF key.val # filter_values[Head(keys)] THEN "skip"
    ELSE filter_variables_row(v, filter_values, Tail(keys))

\* one variable of the loop of filter_variables: "add", "skip", or the
\* exception the loop ends with
filter_variables_row(v, filter_values, keys) ==
    IF keys = <<>> THEN "add"
    ELSE filter_variables_entry(get_variable_index_value(vName[v], Head(keys)),
                                v, filter_values, keys)

\* what a filter hands to its return statements: val is the list of the
\* entities kept, rest is set(given) - set(kept)
Kept(given, kept) ==
    [exc |-> "none", val |-> kept, rest |-> Elems(given) \ Elems(kept)]

Fails(e) == [exc |-> e, val |-> <<>>, rest |-> {}]

\* the loop of filter_variables, with rows the outcome of every variable
filter_variables_loop(variables, rows) ==
    LET raising == {i \in 1..Len(variables) : rows[i] \notin {"add", "skip"}}
    IN  IF raising # {}
        THEN Fails(rows[CHOOSE i \in raising : \A j \in raising : i <= j])
        ELSE Kept(variables, KeepWhere(variables, [i \in 1..Len(variables) |->
                                                      rows[i] = "add"]))

\* filter_variables(variables, filter_values, exclude) up to its return
\* statements
filter_variables(variables, filter_values) ==
    IF Len(variables) = 0 THEN Fails("ValueError")
    ELSE IF DOMAIN filter_values = {} THEN Fails("ValueError")
    \* pg.get_variable_index_value: the module binds no name pg
    ELSE IF "pg" \notin ModuleGlobals THEN Fails("NameError")
    ELSE filter_variables_loop(variables,
             [i \in 1..Len(variables) |->
                 filter_variables_row(variables[i], filter_values,
                                      dict_keys(DOMAIN filter_values))])

\* a result that went through no filter
Unfiltered(r) == [exc |-> r.exc, val |-> r.val, rest |-> {}, filtered |-> FALSE]

Filtered(r) == [exc |-> r.exc, val |-> r.val, rest |-> r.rest, filtered |-> TRUE]

\* get_variables with the exact comparison on both branches of approx
get_variables_exact_only(name, approx, filter_values) ==
    IF name = <<>> THEN Unfiltered(Return(mVars))
    ELSE IF DOMAIN filter_values = {}
         THEN Unfiltered(Return(SelectSeq(mVars,
                  LAMBDA v : Split(vName[v], VAR_BRACKET_L)[1] = name)))
    ELSE Unfiltered(Raise("TypeError"))

\* get_variables(model, name, approx, filter_values, exclude) up to the
\* return statements of filter_variables
get_variables(name, approx, filter_values) ==
    IF name = <<>> THEN Unfiltered(Return(mVars))
    ELSE IF DOMAIN filter_values = {}
         THEN Unfiltered(Return(
                  IF ~approx
                  THEN SelectSeq(mVars,
                           LAMBDA v : Split(vName[v], VAR_BRACKET_L)[1] = name)
                  ELSE SelectSeq(mVars,
                           LAMBDA v : StrIn(name, Split(vName[v], VAR_BRACKET_L)[1]))))
    \* filter_variables(filter_values, variables=variables, exclude=exclude)
    ELSE IF ~call_binds(filter_variables_params, 1, {"variables", "exclude"})
         THEN Unfiltered(Raise("TypeError"))
    ELSE Filtered(filter_variables(
             IF ~approx
             THEN SelectSeq(mVars,
                      LAMBDA v : Split(vName[v], VAR_BRACKET_L)[1] = name)
             ELSE SelectSeq(mVars,
                      LAMBDA v : StrIn(name, Split(vName[v], VAR_BRACKET_L)[1])),
             filter_values))

\* get_variables_by_index_values(model, name, index_values, exclude), the
\* second definition of that name
get_variables_by_index_values(name, index_values) ==
    IF "filter_variables_by_index_value" \notin ModuleGlobals
    THEN Unfiltered(Raise("NameError"))
    ELSE Filtered(filter_variables(get_variables(name, FALSE, EmptyDict).val,
                                   index_values))

-----------------------------------------------------------------------------
(* Lookup and filters of constraints. *)

\* get_constraints(model, name, approx)
get_constraints(name, approx) ==
    IF name = <<>> THEN mCons
    ELSE IF ~approx
         THEN SelectSeq(mCons, LAMBDA c : Split(cName[c], CON_BRACKET_L)[1] = name)
         ELSE SelectSeq(mCons,
                  LAMBDA c : StrIn(name, Split(cName[c], CON_BRACKET_L)[1]))

\* one filter entry of the loops of filter_constraints_by_index_value, with
\* names the index value of every constraint and more the later entries:
\* new_cons grows by every constraint that has the value at the index
filter_constraints_entry(constraints, value, names, more) ==
    LET raising == {i \in 1..Len(constraints) : names[i].exc # "none"}
    IN  IF raising # {} THEN Raise(names[CHOOSE i \in raising : TRUE].exc)
        ELSE IF more.exc # "none" THEN more
        ELSE Return(KeepWhere(constraints, [i \in 1..Len(constraints) |->
                                               value = names[i].val]) \o more.val)

RECURSIVE filter_constraints_loop(_, _, _)
filter_constraints_loop(constraints, index_values, keys) ==
    IF keys = <<>> THEN Return(<<>>)
    ELSE filter_constraints_entry(constraints, index_values[Head(keys)],
             [i \in 1..Len(constraints) |->
                 get_constraint_index_value(cName[constraints[i]], Head(keys))],
             filter_constraints_loop(constraints, index_values, Tail(keys)))

\* new_cons and set(constraints) - set(new_cons)
filter_constraints_return(constraints, loop) ==
    IF loop.exc # "none" THEN Fails(loop.exc)
    ELSE [exc |-> "none", val |-> loop.val,
          rest |-> Elems(constraints) \ Elems(loop.val)]

\* filter_constraints_by_index_value(constraints, index_values, exclude) up to
\* its return statements
filter_constraints_by_index_value(constraints, index_values) ==
    IF Len(constraints) = 0 THEN Fails("ValueError")
    ELSE IF DOMAIN index_values = {} THEN Fails("ValueError")
    ELSE filter_constraints_return(constraints,
             filter_constraints_loop(constraints, index_values,
                                     dict_keys(DOMAIN index_values)))

\* get_constraints_by_index_values(model, name, index_values, exclude)
get_constraints_by_index_values(name, index_values) ==
    filter_constraints_by_index_value(get_constraints(name, FALSE), index_values)

-----------------------------------------------------------------------------
(* The calls of the lookup helpers. *)

\* the set names the callers ask for: none, x, y, xy and q
NameInputs == {<<>>, <<"x">>, <<"y">>, <<"x", "y">>, <<"q">>}

\* the filters the callers give: index position -> index value
FilterInputs ==
    { EmptyDict,
      (0 :> PyInt(1)),
      (1 :> PyInt(2)),
      (0 :> PyInt(1)) @@ (1 :> PyInt(2)),
      (0 :> PyInt(2)) @@ (1 :> PyInt(2)),
      (1 :> PyStr(<<"a">>)),
      (0 :> PyInt(1)) @@ (1 :> PyStr(<<"a">>)) }

\* the collections the callers give: entities of the model, in model order
SubLists(q) == {SelectSeq(q, LAMBDA e : e \in S) : S \in SUBSET Elems(q)}

\* what a filter returns: new_vars, or the list of the set difference in the
\* order the set iterates
Returned(r, exclude) ==
    IF r.exc = "none" /\ exclude /\ r.filtered
    THEN {Return(o) : o \in Orders(r.rest)}
    ELSE {[exc |-> r.exc, val |-> r.val]}

Unchanged == UNCHANGED <<mVars, mCons, vName, cName, vAttr, cAttr, built, edits,
                         mCalls, status, files>>

\* the caller takes the result or the exception of the call
ReturnToCaller ==
    /\ ~Idle
    /\ last' = NoCall
    /\ mCalls' = <<>>
    /\ UNCHANGED <<mVars, mCons, vName, cName, vAttr, cAttr, built, edits,
                   status, files>>

\* the call ends with one of the results r allows
Answers(call, r) ==
    /\ \E out \in Returned(r, call.exclude) :
           last' = call @@ [exc |-> out.exc, val |-> out.val]
    /\ Unchanged

GetVariables ==
    /\ Idle
    /\ \E name \in NameInputs, approx \in BOOLEAN,
       filter_values \in FilterInputs, exclude \in BOOLEAN :
        Answers([op |-> "get_variables", name |-> name, approx |-> approx,
                 filter |-> filter_values, exclude |-> exclude],
                get_variables(name, approx, filter_values))

GetConstraints ==
    /\ Idle
    /\ \E name \in NameInputs, approx \in BOOLEAN :
        /\ last' = [op |-> "get_constraints", name |-> name, approx |-> approx,
                    exc |-> "none", val |-> get_constraints(name, approx)]
        /\ Unchanged

GetVariablesByIndexValues ==
    /\ Idle
    /\ \E name \in NameInputs, index_values \in FilterInputs, exclude \in BOOLEAN :
        Answers([op |-> "get_variables_by_index_values", name |-> name,
                 filter |-> index_values, exclude |-> exclude],
                get_variables_by_index_values(name, index_values))

GetConstraintsByIndexValues ==
    /\ Idle
    /\ \E name \in NameInputs, index_values \in FilterInputs, exclude \in BOOLEAN :
        Answers([op |-> "get_constraints_by_index_values", name |-> name,
                 filter |-> index_values, exclude |-> exclude],
                Filtered(get_constraints_by_index_values(name, index_values)))

FilterVariables ==
    /\ Idle
    /\ \E variables \in SubLists(mVars),
       filter_values \in FilterInputs, exclude \in BOOLEAN :
        Answers([op |-> "filter_variables", given |-> variables,
                 filter |-> filter_values, exclude |-> exclude],
                Filtered(filter_variables(variables, filter_values)))

FilterConstraintsByIndexValue ==
    /\ Idle
    /\ \E constraints \in SubLists(mCons),
       index_values \in FilterInputs, exclude \in BOOLEAN :
        Answers([op |-> "filter_constraints_by_index_value",
                 given |-> constraints, filter |-> index_values,
                 exclude |-> exclude],
                Filtered(filter_constraints_by_index_value(constraints,
                                                           index_values)))

\* check_if_name_a_variable(name, model)
check_if_name_a_variable(name) == get_variables(name, FALSE, EmptyDict).val # <<>>

\* check_if_name_a_constraint(name, model)
check_if_name_a_constraint(name) == get_constraints(name, FALSE) # <<>>

CheckIfNameAVariable ==
    /\ Idle
    /\ \E name \in NameInputs :
           last' = [op |-> "check_if_name_a_variable", name |-> name,
                    exc |-> "none", val |-> check_if_name_a_variable(name)]
    /\ Unchanged

CheckIfNameAConstraint ==
    /\ Idle
    /\ \E name \in NameInputs :
           last' = [op |-> "check_if_name_a_constraint", name |-> name,
                    exc |-> "none", val |-> check_if_name_a_constraint(name)]
    /\ Unchanged

Next ==
    \/ list_variables
    \/ list_constraints
    \/ GetVariables
    \/ GetConstraints
    \/ GetVariablesByIndexValues
    \/ GetConstraintsByIndexValues
    \/ FilterVariables
    \/ FilterConstraintsByIndexValue
    \/ CheckIfNameAVariable
    \/ CheckIfNameAConstraint
    \/ ReturnToCaller

Spec == Init /\ [][Next]_vars

-----------------------------------------------------------------------------
(* Index extraction on composed names. *)

\* the set names and the index values names are composed from
SetNames == {<<"x">>, <<"x", "1">>}

IndexValues ==
    {PyInt(0), PyInt(12), PyInt(0 - 3),
     PyStr(<<"a">>), PyStr(<<"s", "w">>), PyStr(<<"7">>)}

\* the index lists of 1 to n values
IndexLists(n) == UNION {[1..k -> IndexValues] : k \in 1..n}

\* the index list with white space around every token, as in x[ 1 , a ]
RECURSIVE JoinPadded(_, _)
JoinPadded(idx, pad) ==
    IF idx = <<>> THEN <<>>
    ELSE IF Len(idx) = 1 THEN pad \o Format(idx[1]) \o pad
    ELSE pad \o Format(idx[1]) \o pad \o <<",">> \o JoinPadded(Tail(idx), pad)

PaddedName(set, idx, pad, left, right) ==
    IF pad = <<>> THEN ComposeName(set, idx, left, right)
    ELSE set \o <<left>> \o JoinPadded(idx, pad) \o <<right>>

\* a model of one variable and one constraint of the same set and index list
InitIndex ==
    \E set \in SetNames, idx \in IndexLists(MaxIndices), pad \in {<<>>, <<" ">>} :
        /\ mVars = <<1>>
        /\ mCons = <<1>>
        /\ built = [e \in {1} |-> [set |-> set, idx |-> idx, pad |-> pad]]
        /\ vName = [e \in {1} |->
                       PaddedName(set, idx, pad, VAR_BRACKET_L, VAR_BRACKET_R)]
        /\ cName = [e \in {1} |->
                       PaddedName(set, idx, pad, CON_BRACKET_L, CON_BRACKET_R)]
        /\ vAttr = [e \in {1} |-> InitVarAttr(e)]
        /\ cAttr = [e \in {1} |-> InitConAttr(e)]
        /\ edits = 0
        /\ InitOutside
        /\ last = NoCall

GetVariableIndexValue ==
    /\ Idle
    /\ \E v \in Elems(mVars), index \in 0..(MaxIndices - 1) :
           last' = [op |-> "get_variable_index_value", entity |-> v,
                    index |-> index] @@ get_variable_index_value(vName[v], index)
    /\ Unchanged

GetConstraintIndexValue ==
    /\ Idle
    /\ \E c \in Elems(mCons), index \in 0..(MaxIndices - 1) :
           last' = [op |-> "get_constraint_index_value", entity |-> c,
                    index |-> index] @@ get_constraint_index_value(cName[c], index)
    /\ Unchanged

NextIndex ==
    \/ GetVariableIndexValue
    \/ GetConstraintIndexValue
    \/ ReturnToCaller

SpecIndex == InitIndex /\ [][NextIndex]_vars

-----------------------------------------------------------------------------
(* Reading and setting attributes. *)

\* variables_check with the set name looked up before the list is looked at
variables_check_name_first(model, name, variables) ==
    IF model /\ name # <<>> THEN get_variables(name, FALSE, EmptyDict).val
    ELSE IF Len(variables) > 0 THEN variables
    ELSE IF model THEN mVars
    ELSE variables

\* variables_check(model, name, variables); model is whether one is given
variables_check(model, name, variables) ==
    IF Len(variables) > 0 THEN variables
    ELSE IF model /\ name # <<>> THEN get_variables(name, FALSE, EmptyDict).val
    ELSE IF model THEN mVars
    ELSE variables

\* constraints_check(name, model, constraints)
constraints_check(name, model, constraints) ==
    IF Len(constraints) > 0 THEN constraints
    ELSE IF model /\ name # <<>> THEN get_constraints(name, FALSE)
    ELSE IF model THEN mCons
    ELSE constraints

\* the entities whose name a selection reads
NamesRead(all, model, name, given) ==
    IF Len(given) = 0 /\ model /\ name # <<>> THEN Elems(all) ELSE {}

\* {e.name: getattr(e, attr) for e in entities}: a later entity of the same
\* name replaces an earlier one
AttrDict(store, names, entities, attr) ==
    [n \in {names[e] : e \in Elems(entities)} |->
        LET at == {i \in 1..Len(entities) : names[entities[i]] = n}
        IN  GetAttr(store, entities[CHOOSE i \in at : \A j \in at : j <= i], attr)]

\* for e in entities: setattr(e, attr, val)
RECURSIVE SetAll(_, _, _, _)
SetAll(store, entities, attr, val) ==
    IF entities = <<>> THEN store
    ELSE SetAll(SetAttr(store, Head(entities), attr, val), Tail(entities), attr, val)

Failed(e, store) == [exc |-> e, val |-> EmptyDict, store |-> store,
                     read |-> {}, written |-> {}]

\* a call that touches nothing
Untouched(store) == [exc |-> "none", val |-> EmptyDict, store |-> store,
                     read |-> {}, written |-> {}]

\* {e.name: getattr(e, attr) for e in selected}; named are the entities whose
\* name the selection has read
ReadAttrs(store, names, selected, attr, named) ==
    [exc |-> "none",
     val |-> AttrDict(store, names, selected, attr),
     store |-> store,
     read |-> named \cup Elems(selected),
     written |-> {}]

\* for e in selected: setattr(e, attr, val)
WriteAttrs(store, selected, attr, val, named) ==
    [exc |-> "none",
     val |-> EmptyDict,
     store |-> SetAll(store, selected, attr, val.i),
     read |-> named,
     written |-> Elems(selected)]

\* get_variables_attr with the attribute of the first selected variable
\* reported for every name
get_variables_attr_of_first(attr, model, name, variables) ==
    IF attr = <<>> THEN Failed("AttributeError", vAttr)
    ELSE IF ~check_variable_attr(attr) THEN Failed("AttributeError", vAttr)
    ELSE IF ~model /\ Len(variables) = 0 THEN Failed("ValueError", vAttr)
    ELSE [exc |-> "none",
          val |-> [n \in {vName[v] : v \in Elems(variables_check(model, name,
                                                                 variables))} |->
                      GetAttr(vAttr, variables_check(model, name, variables)[1],
                              attr)],
          store |-> vAttr,
          read |-> NamesRead(mVars, model, name, variables)
                       \cup Elems(variables_check(model, name, variables)),
          written |-> {}]

\* get_variables_attr(attr, model, name, variables)
get_variables_attr(attr, model, name, variables) ==
    IF attr = <<>> THEN Failed("AttributeError", vAttr)
    ELSE IF ~check_variable_attr(attr) THEN Failed("AttributeError", vAttr)
    ELSE IF ~model /\ Len(variables) = 0 THEN Failed("ValueError", vAttr)
    ELSE ReadAttrs(vAttr, vName, variables_check(model, name, variables),
                   attr, NamesRead(mVars, model, name, variables))

\* set_variables_attr(attr, val, model, name, variables) on the attributes store
set_variables_attr(store, attr, val, model, name, variables) ==
    IF attr = <<>> \/ ~Truthy(val) THEN Failed("AttributeError", store)
    ELSE IF ~check_variable_attr(attr) THEN Failed("AttributeError", store)
    ELSE IF ~model /\ Len(variables) = 0 THEN Failed("ValueError", store)
    ELSE WriteAttrs(store, variables_check(model, name, variables), attr, val,
                    NamesRead(mVars, model, name, variables))

\* the second call follows what the first has done
Then(first, second) ==
    [second EXCEPT !.read = @ \cup first.read, !.written = @ \cup first.written]

\* if ub: set_variables_attr("ub", ...), after the lower bound is dealt with
set_variables_upper_bound(lower, ub, model, name, variables) ==
    IF lower.exc # "none" THEN lower
    ELSE IF Truthy(ub)
         THEN Then(lower, set_variables_attr(lower.store, <<"u", "b">>, ub,
                                             model, name, variables))
    ELSE lower

\* set_variables_bounds(lb, ub, model, name, variables)
set_variables_bounds(lb, ub, model, name, variables) ==
    set_variables_upper_bound(
        IF Truthy(lb)
        THEN set_variables_attr(vAttr, <<"l", "b">>, lb, model, name, variables)
        ELSE Untouched(vAttr),
        ub, model, name, variables)

\* get_constraints_attr(attr, model, name, constraints)
get_constraints_attr(attr, model, name, constraints) ==
    IF attr = <<>> THEN Failed("AttributeError", cAttr)
    ELSE IF ~check_constraint_attr(attr) THEN Failed("AttributeError", cAttr)
    ELSE IF ~model /\ Len(constraints) = 0 THEN Failed("ValueError", cAttr)
    ELSE ReadAttrs(cAttr, cName, constraints_check(name, model, constraints),
                   attr, NamesRead(mCons, model, name, constraints))

\* set_constraints_attr(attr, val, model, name, constraints)
set_constraints_attr(store, attr, val, model, name, constraints) ==
    IF attr = <<>> \/ ~Truthy(val) THEN Failed("AttributeError", store)
    ELSE IF ~check_constraint_attr(attr) THEN Failed("AttributeError", store)
    ELSE IF ~model /\ Len(constraints) = 0 THEN Failed("ValueError", store)
    ELSE WriteAttrs(store, constraints_check(name, model, constraints), attr, val,
                    NamesRead(mCons, model, name, constraints))

-----------------------------------------------------------------------------
(* The calls of the attribute helpers. *)

\* x[1,2], x[2,2] and xy[1,2]
AttrModel == <<1, 2, 4>>

InitAttr ==
    /\ mVars = AttrModel
    /\ mCons = AttrModel
    /\ built = [e \in EntityIds |-> EntityPool[e]]
    /\ vName = [e \in EntityIds |->
                   ComposeName(EntityPool[e].set, EntityPool[e].idx,
                               VAR_BRACKET_L, VAR_BRACKET_R)]
    /\ cName = [e \in EntityIds |->
                   ComposeName(EntityPool[e].set, EntityPool[e].idx,
                               CON_BRACKET_L, CON_BRACKET_R)]
    /\ vAttr = [e \in EntityIds |-> InitVarAttr(e)]
    /\ cAttr = [e \in EntityIds |-> InitConAttr(e)]
    /\ edits = 0
    /\ InitOutside
    /\ last = NoCall

\* the attribute names the callers give: none, names of the list in several
\* cases, a name of the other list, and a name that extends one of the list
VarAttrInputs == {<<>>, LB, <<"l", "b">>, <<"U", "b">>, Obj, RHS, <<"L", "B", "S">>}
ConAttrInputs == {<<>>, RHS, <<"r", "h", "s">>, <<"R", "h", "s">>, LB, <<"R", "H">>}

\* the values the callers give
ValInputs == {PyInt(0), PyInt(1), PyInt(2)}

\* the selections the callers give: a model or none, a set name or none, a
\* list of entities or none
Selections(all) ==
    { [model |-> TRUE,  name |-> <<>>,      given |-> <<>>],
      [model |-> TRUE,  name |-> <<"x">>,   given |-> <<>>],
      [model |-> TRUE,  name |-> <<"q">>,   given |-> <<>>],
      [model |-> FALSE, name |-> <<>>,
       given |-> IF all = <<>> THEN <<>> ELSE <<all[1]>>],
      [model |-> TRUE,  name |-> <<"x">>,
       given |-> IF all = <<>> THEN <<>> ELSE <<all[Len(all)]>>],
      [model |-> FALSE, name |-> <<"x">>,   given |-> <<>>] }

\* the record of a call: its arguments and what it did
Called(op, attr, val, sel, r) ==
    [op |-> op, attr |-> attr, arg |-> val, sel |-> sel,
     exc |-> r.exc, val |-> r.val, read |-> r.read, written |-> r.written]

GetVariablesAttr ==
    /\ Idle
    /\ \E attr \in VarAttrInputs \cup {X}, sel \in Selections(mVars) :
           last' = Called("get_variables_attr", attr, NotGiven, sel,
                          get_variables_attr(attr, sel.model, sel.name, sel.given))
    /\ Unchanged

GetConstraintsAttr ==
    /\ Idle
    /\ \E attr \in ConAttrInputs \cup {Pi}, sel \in Selections(mCons) :
           last' = Called("get_constraints_attr", attr, NotGiven, sel,
                          get_constraints_attr(attr, sel.model, sel.name, sel.given))
    /\ Unchanged

\* the call leaves the store of the variables as r has it
EditVariables(call, r) ==
    /\ last' = call @@ [exc |-> r.exc, val |-> r.val,
                        read |-> r.read, written |-> r.written]
    /\ vAttr' = r.store
    /\ edits' = IF r.exc = "none" THEN edits + 1 ELSE edits
    /\ UNCHANGED <<mVars, mCons, vName, cName, cAttr, built, mCalls, status, files>>

\* the call leaves the store of the constraints as r has it
EditConstraints(call, r) ==
    /\ last' = call @@ [exc |-> r.exc, val |-> r.val,
                        read |-> r.read, written |-> r.written]
    /\ cAttr' = r.store
    /\ edits' = IF r.exc = "none" THEN edits + 1 ELSE edits
    /\ UNCHANGED <<mVars, mCons, vName, cName, vAttr, built, mCalls, status, files>>

SetVariablesAttr ==
    /\ Idle
    /\ edits < MaxEdits
    /\ \E attr \in VarAttrInputs, val \in ValInputs, sel \in Selections(mVars) :
           EditVariables([op |-> "set_variables_attr", attr |-> attr,
                          arg |-> val, sel |-> sel],
                         set_variables_attr(vAttr, attr, val,
                                            sel.model, sel.name, sel.given))

SetVariablesBounds ==
    /\ Idle
    /\ edits < MaxEdits
    /\ \E lb \in ValInputs \cup {NotGiven}, ub \in ValInputs \cup {NotGiven},
          sel \in Selections(mVars) :
           EditVariables([op |-> "set_variables_bounds", attr |-> <<>>,
                          arg |-> [lb |-> lb, ub |-> ub], sel |-> sel],
                         set_variables_bounds(lb, ub, sel.model, sel.name, sel.given))

SetConstraintsAttr ==
    /\ Idle
    /\ edits < MaxEdits
    /\ \E attr \in ConAttrInputs, val \in ValInputs, sel \in Selections(mCons) :
           EditConstraints([op |-> "set_constraints_attr", attr |-> attr,
                            arg |-> val, sel |-> sel],
                           set_constraints_attr(cAttr, attr, val,
                                                sel.model, sel.name, sel.given))

NextAttr ==
    \/ GetVariablesAttr
    \/ GetConstraintsAttr
    \/ SetVariablesAttr
    \/ SetVariablesBounds
    \/ SetConstraintsAttr
    \/ ReturnToCaller

SpecAttr == InitAttr /\ [][NextAttr]_vars

-----------------------------------------------------------------------------
(* Editing the model: objective, right-hand sides, removal, new constraints. *)

\* a call on the model object: update, reset, optimize, write, remove(e) or
\* addConstr(lhs, sense, rhs, name) with e the new constraint
NoRow == [lhs |-> <<>>, sense |-> "", rhs |-> <<>>, constant |-> 0, name |-> <<>>]

ModelCall(m) == [m |-> m, e |-> 0, row |-> NoRow]

Removal(e) == [m |-> "remove", e |-> e, row |-> NoRow]

Addition(e, row) == [m |-> "addConstr", e |-> e, row |-> row]

\* what a helper does: the exception it ends with, what it prints, the model
\* it leaves, the calls it makes on the model object and the entities whose
\* attributes or names it reads and whose attributes or membership it changes
NoEffect ==
    [exc |-> "none", val |-> EmptyDict, printed |-> <<>>,
     vars |-> mVars, cons |-> mCons, vstore |-> vAttr, cstore |-> cAttr,
     cnames |-> cName, calls |-> <<>>, read |-> {}, written |-> {}]

Raises(e) == [NoEffect EXCEPT !.exc = e]

\* zero_all_objective_coeffs(model)
zero_all_objective_coeffs(model) ==
    IF ~model THEN Raises("ValueError")
    ELSE [NoEffect EXCEPT !.vstore = SetAll(vAttr, mVars, Obj, 0),
                          !.written = Elems(mVars)]

\* the removals followed by model.update()
remove_all_updating(entities) ==
    [i \in 1..Len(entities) |-> Removal(entities[i])] \o <<ModelCall("update")>>

\* for v in variables: model.remove(v)
remove_all(entities) == [i \in 1..Len(entities) |-> Removal(entities[i])]

remove_variables(selected, named) ==
    [NoEffect EXCEPT !.vars = SelectSeq(mVars, LAMBDA v : v \notin Elems(selected)),
                     !.calls = remove_all(selected),
                     !.read = named,
                     !.written = Elems(selected)]

\* remove_variables_from_model without the tests of its arguments
remove_variables_from_model_unchecked(model, name, variables) ==
    remove_variables(variables_check(model, name, variables),
                     NamesRead(mVars, model, name, variables))

\* remove_variables_from_model(model, name, variables)
remove_variables_from_model(model, name, variables) ==
    IF ~model /\ Len(variables) = 0 THEN Raises("ValueError")
    ELSE IF ~model THEN Raises("ValueError")
    ELSE remove_variables(variables_check(model, name, variables),
                          NamesRead(mVars, model, name, variables))

remove_constraints(model, selected, named) ==
    \* "".remove: a str has no attribute remove
    IF ~model /\ Len(selected) > 0 THEN Raises("AttributeError")
    ELSE [NoEffect EXCEPT
             !.cons = SelectSeq(mCons, LAMBDA c : c \notin Elems(selected)),
             !.calls = remove_all(selected),
             !.read = named,
             !.written = Elems(selected)]

\* remove_constraints_from_model(model, name, constraints)
remove_constraints_from_model(model, name, constraints) ==
    remove_constraints(model,
        IF Len(constraints) = 0 THEN constraints_check(name, model, constraints)
        ELSE constraints,
        NamesRead(mCons, model, name, constraints))

\* float(percent): a number, or the ValueError of a string that is none
Float(v) == IF v.t = "int" THEN [ok |-> TRUE, val |-> v.i] ELSE IntParse(v.s)

\* for c in constraints: setattr(c, "rhs", percent*getattr(c, "rhs"))
RECURSIVE ScaleAll(_, _, _)
ScaleAll(store, entities, percent) ==
    IF entities = <<>> THEN store
    ELSE ScaleAll(SetAttr(store, Head(entities), <<"r", "h", "s">>,
                          percent * GetAttr(store, Head(entities), <<"r", "h", "s">>)),
                  Tail(entities), percent)

scale_rhs(percent, selected, named) ==
    [NoEffect EXCEPT !.cstore = ScaleAll(cAttr, selected, percent),
                     !.read = named \cup Elems(selected),
                     !.written = Elems(selected)]

set_constraints_rhs_as_float(percent, model, name, constraints) ==
    IF ~percent.ok THEN Raises("ValueError")
    ELSE IF ~model /\ Len(constraints) = 0 THEN Raises("ValueError")
    ELSE scale_rhs(percent.val, constraints_check(name, model, constraints),
                   NamesRead(mCons, model, name, constraints))

\* set_constraints_rhs_as_percent(percent, model, name, constraints)
set_constraints_rhs_as_percent(percent, model, name, constraints) ==
    IF percent # PyInt(0) /\ ~Truthy(percent)
    THEN [NoEffect EXCEPT !.printed = <<"Error: No percent specified.">>]
    ELSE set_constraints_rhs_as_float(Float(percent), model, name, constraints)

\* get_grb_sense_from_string with equality for every other string
get_grb_sense_from_string_lenient(sense) ==
    IF sense = <<"<">> THEN [ok |-> TRUE, val |-> "LESS_EQUAL"]
    ELSE IF sense = <<">">> THEN [ok |-> TRUE, val |-> "GREATER_EQUAL"]
    ELSE [ok |-> TRUE, val |-> "EQUAL"]

\* get_grb_sense_from_string(sense): [ok |-> FALSE] is its ValueError
get_grb_sense_from_string(sense) ==
    IF sense = <<"<">> THEN [ok |-> TRUE, val |-> "LESS_EQUAL"]
    ELSE IF sense = <<">">> THEN [ok |-> TRUE, val |-> "GREATER_EQUAL"]
    ELSE IF sense = <<"=">> THEN [ok |-> TRUE, val |-> "EQUAL"]
    ELSE [ok |-> FALSE, val |-> ""]

\* get_linexp_from_variables(variables): the sum, as the list of its terms
get_linexp_from_variables(variables) == variables

\* the constraint object a call of addConstr makes
NewConstr == Cardinality(DOMAIN cName) + 1

\* the name gurobipy gives a constraint that is added without one
DefaultConstrName == <<"R">> \o NatToStr(Len(mCons))

\* model.addConstr(lhs, sense, rhs) or model.addConstr(lhs, sense, rhs, name)
addConstr(row) ==
    [NoEffect EXCEPT
        !.cons = Append(mCons, NewConstr),
        !.cnames = cName @@ (NewConstr :>
                       IF row.name = <<>> THEN DefaultConstrName ELSE row.name),
        !.cstore = cAttr @@ (NewConstr :> ((RHS :> row.constant) @@ (Pi :> 0))),
        !.calls = <<Addition(NewConstr, row)>>,
        !.written = {NewConstr}]

add_constraint_with_sense(lhs, sense, rhs, constant, con_name) ==
    IF ~sense.ok THEN Raises("ValueError")
    ELSE addConstr([lhs |-> lhs, sense |-> sense.val, rhs |-> rhs,
                    constant |-> constant, name |-> con_name])

\* add_constraint_constant(model, variables, constant, sense, con_name)
add_constraint_constant(variables, constant, sense, con_name) ==
    IF Len(variables) = 0 THEN Raises("ValueError")
    ELSE add_constraint_with_sense(get_linexp_from_variables(variables),
                                   get_grb_sense_from_string(sense),
                                   <<>>, constant, con_name)

\* add_constraint_variables(model, variables1, variables2, sense, con_name):
\* the ValueError of an empty list is made and dropped, not raised
add_constraint_variables(variables1, variables2, sense, con_name) ==
    add_constraint_with_sense(get_linexp_from_variables(variables1),
                              get_grb_sense_from_string(sense),
                              get_linexp_from_variables(variables2),
                              0, con_name)

\* reoptimize with the reset before the update
reoptimize_reset_first ==
    [NoEffect EXCEPT !.calls = <<ModelCall("reset"), ModelCall("update"),
                                 ModelCall("optimize")>>]

\* reoptimize(m)
reoptimize ==
    [NoEffect EXCEPT !.calls = <<ModelCall("update"), ModelCall("reset"),
                                 ModelCall("optimize")>>]

-----------------------------------------------------------------------------
(* The calls of the editing helpers. *)

\* the status a model can have after optimize
StatusesAfterOptimize == {OPTIMAL, INFEASIBLE, UNBOUNDED}

\* the lists of variables the callers give: none, one variable, all
VarListInputs == {<<>>, mVars} \cup {<<mVars[i]>> : i \in 1..Len(mVars)}

SenseInputs == {<<"<">>, <<">">>, <<"=">>, <<"<", "=">>}

ConNameInputs == {<<>>, <<"c", "a", "p">>}

\* the percents the callers give: none, numbers, and a string that is no number
PercentInputs == {NotGiven, PyInt(0), PyInt(1), PyInt(3), PyInt(100), PyStr(<<"a">>)}

\* the call leaves the model as r has it
Effects(call, r) ==
    /\ last' = call @@ [exc |-> r.exc, val |-> r.val, printed |-> r.printed,
                        calls |-> r.calls, read |-> r.read, written |-> r.written]
    /\ mVars' = r.vars
    /\ mCons' = r.cons
    /\ vAttr' = r.vstore
    /\ cAttr' = r.cstore
    /\ cName' = r.cnames
    /\ mCalls' = r.calls
    /\ edits' = IF r.exc = "none" THEN edits + 1 ELSE edits
    /\ UNCHANGED <<vName, built, files>>

ZeroAllObjectiveCoeffs ==
    /\ Idle
    /\ edits < MaxEdits
    /\ \E model \in BOOLEAN :
           Effects([op |-> "zero_all_objective_coeffs",
                    sel |-> [model |-> model, name |-> <<>>, given |-> <<>>]],
                   zero_all_objective_coeffs(model))
    /\ status' = status

RemoveVariablesFromModel ==
    /\ Idle
    /\ edits < MaxEdits
    /\ \E sel \in Selections(mVars) :
           Effects([op |-> "remove_variables_from_model", sel |-> sel],
                   remove_variables_from_model(sel.model, sel.name, sel.given))
    /\ status' = status

RemoveConstraintsFromModel ==
    /\ Idle
    /\ edits < MaxEdits
    /\ \E sel \in Selections(mCons) :
           Effects([op |-> "remove_constraints_from_model", sel |-> sel],
                   remove_constraints_from_model(sel.model, sel.name, sel.given))
    /\ status' = status

SetConstraintsRhsAsPercent ==
    /\ Idle
    /\ edits < MaxEdits
    /\ \E percent \in PercentInputs, sel \in Selections(mCons) :
           Effects([op |-> "set_constraints_rhs_as_percent", percent |-> percent,
                    sel |-> sel],
                   set_constraints_rhs_as_percent(percent, sel.model, sel.name,
                                                  sel.given))
    /\ status' = status

AddConstraintConstant ==
    /\ Idle
    /\ edits < MaxEdits
    /\ \E variables \in VarListInputs, constant \in {0, 3},
          sense \in SenseInputs, con_name \in ConNameInputs :
           Effects([op |-> "add_constraint_constant", variables |-> variables,
                    constant |-> constant, sense |-> sense, con_name |-> con_name],
                   add_constraint_constant(variables, constant, sense, con_name))
    /\ status' = status

AddConstraintVariables ==
    /\ Idle
    /\ edits < MaxEdits
    /\ \E variables1 \in VarListInputs, variables2 \in VarListInputs,
          sense \in SenseInputs, con_name \in ConNameInputs :
           Effects([op |-> "add_constraint_variables", variables1 |-> variables1,
                    variables2 |-> variables2, sense |-> sense,
                    con_name |-> con_name],
                   add_constraint_variables(variables1, variables2, sense, con_name))
    /\ status' = status

\* reoptimize(m): the status is what the solver finds
Reoptimize ==
    /\ Idle
    /\ edits < MaxEdits
    /\ Effects([op |-> "reoptimize"], reoptimize)
    /\ status' \in StatusesAfterOptimize

\* the caller calls update, reset or optimize on the model
CallerSolves ==
    /\ Idle
    /\ edits < MaxEdits
    /\ \E m \in {"update", "reset", "optimize"} :
           /\ Effects([op |-> "caller"], [NoEffect EXCEPT !.calls = <<ModelCall(m)>>])
           /\ status' \in IF m = "optimize" THEN StatusesAfterOptimize
                          ELSE IF m = "reset" THEN {LOADED} ELSE {status}

NextEdit ==
    \/ SetVariablesAttr
    \/ SetVariablesBounds
    \/ SetConstraintsAttr
    \/ ZeroAllObjectiveCoeffs
    \/ RemoveVariablesFromModel
    \/ RemoveConstraintsFromModel
    \/ SetConstraintsRhsAsPercent
    \/ AddConstraintConstant
    \/ AddConstraintVariables
    \/ Reoptimize
    \/ CallerSolves
    \/ ReturnToCaller

SpecEdit == InitAttr /\ [][NextEdit]_vars

(* Grouping and summing by index. *)

\* the index arguments the callers give: none, positions from the left and
\* the last position
IndexInputs == {NotGiven, PyInt(0), PyInt(1), PyInt(2), PyInt(0 - 1)}

\* the dict of the loop: each index value with the entities that have it, in
\* the order of the list
group_by_index(selected, values) ==
    [k \in {values[i].val : i \in 1..Len(values)} |->
        KeepWhere(selected, [i \in 1..Len(values) |-> values[i].val = k])]

\* the entities the loop has looked at when it ends: all of them, or those up
\* to the first whose name has no such position
LookedAt(selected, values) ==
    {selected[i] : i \in {j \in 1..Len(values) :
                             \A h \in 1..(j - 1) : values[h].exc = "none"}}

\* for e in selected: value = get_..._index_value(e, index); ...
by_index_loop(selected, values, named) ==
    IF \E i \in 1..Len(values) : values[i].exc # "none"
    THEN [NoEffect EXCEPT !.exc = "IndexError",
                          !.read = named \cup LookedAt(selected, values)]
    ELSE [NoEffect EXCEPT !.val = group_by_index(selected, values),
                          !.read = named \cup Elems(selected)]

variables_by_index(index, selected, named) ==
    by_index_loop(selected,
                  [i \in 1..Len(selected) |->
                      get_variable_index_value(vName[selected[i]], index)],
                  named)

\* get_variables_by_index(index, model, name, variables)
get_variables_by_index(index, model, name, variables) ==
    IF index # PyInt(0) /\ ~Truthy(index) THEN Raises("IndexError")
    ELSE IF ~model /\ Len(variables) = 0 THEN Raises("ValueError")
    ELSE IF ~(name # <<>> /\ model) /\ Len(variables) = 0 THEN Raises("ValueError")
    ELSE variables_by_index(index.i, variables_check(model, name, variables),
                            NamesRead(mVars, model, name, variables))

constraints_by_index(index, selected, named) ==
    by_index_loop(selected,
                  [i \in 1..Len(selected) |->
                      get_constraint_index_value(cName[selected[i]], index)],
                  named)

\* get_constraints_by_index(index, model, name, constraints)
get_constraints_by_index(index, model, name, constraints) ==
    IF ~Truthy(index) THEN Raises("IndexError")
    ELSE IF ~model /\ Len(constraints) = 0 THEN Raises("ValueError")
    ELSE IF ~(name # <<>> /\ model) /\ Len(constraints) = 0 THEN Raises("ValueError")
    ELSE constraints_by_index(index.i, constraints_check(name, model, constraints),
                              NamesRead(mCons, model, name, constraints))

-----------------------------------------------------------------------------
(* The calls of the helpers that need an argument. *)

\* the call changes nothing and leaves r to the caller
Reads(call, r) ==
    /\ last' = call @@ [exc |-> r.exc, val |-> r.val, printed |-> r.printed,
                        calls |-> r.calls, read |-> r.read, written |-> r.written]
    /\ Unchanged

GetVariablesByIndex ==
    /\ Idle
    /\ \E index \in IndexInputs, sel \in Selections(mVars) :
           Reads([op |-> "get_variables_by_index", index |-> index, sel |-> sel],
                 get_variables_by_index(index, sel.model, sel.name, sel.given))

GetConstraintsByIndex ==
    /\ Idle
    /\ \E index \in IndexInputs, sel \in Selections(mCons) :
           Reads([op |-> "get_constraints_by_index", index |-> index, sel |-> sel],
                 get_constraints_by_index(index, sel.model, sel.name, sel.given))

NextArgs ==
    \/ GetVariablesAttr
    \/ SetVariablesAttr
    \/ GetConstraintsAttr
    \/ SetConstraintsAttr
    \/ GetVariablesByIndex
    \/ GetConstraintsByIndex
    \/ RemoveVariablesFromModel
    \/ ZeroAllObjectiveCoeffs
    \/ ReturnToCaller

SpecArgs == InitAttr /\ [][NextArgs]_vars

(* Sums of the solution values by index. *)

\* sum([v.X for v in index_vars])
RECURSIVE SumX(_)
SumX(index_vars) ==
    IF index_vars = <<>> THEN 0
    ELSE GetAttr(vAttr, Head(index_vars), X) + SumX(Tail(index_vars))

\* {index_name: sum([v.X for v in index_vars]) for ... in sorted(var_dict.items())}
sum_of_groups(var_dict) == [k \in DOMAIN var_dict |-> SumX(var_dict[k])]

sum_variables(var_dict) ==
    IF var_dict.exc # "none" THEN var_dict
    ELSE IF DOMAIN var_dict.val = {} THEN [var_dict EXCEPT !.exc = "ValueError"]
    ELSE [var_dict EXCEPT !.val = sum_of_groups(var_dict.val)]

\* sum_variables_by_index(index, model, name, variables)
sum_variables_by_index(index, model, name, variables) ==
    sum_variables(get_variables_by_index(index, model, name, variables))

\* two_indices_dict[key] = get_variables_by_index(index2, variables=value),
\* for every key of index1_dict; an inner call that raises ends the loop
two_indices_loop(index1_dict, inner) ==
    IF \E k \in DOMAIN inner : inner[k].exc # "none"
    THEN [index1_dict EXCEPT !.exc = "IndexError", !.val = EmptyDict]
    ELSE [index1_dict EXCEPT !.val = [k \in DOMAIN inner |-> inner[k].val]]

two_indices(index2, index1_dict) ==
    IF index1_dict.exc # "none" THEN index1_dict
    ELSE two_indices_loop(index1_dict,
             [k \in DOMAIN index1_dict.val |->
                 get_variables_by_index(index2, FALSE, <<>>, index1_dict.val[k])])

\* get_variables_by_two_indices(index1, index2, model, name, variables)
get_variables_by_two_indices(index1, index2, model, name, variables) ==
    two_indices(index2, get_variables_by_index(index1, model, name, variables))

sum_two_indices(two_indices_dict) ==
    IF two_indices_dict.exc # "none" THEN two_indices_dict
    ELSE IF DOMAIN two_indices_dict.val = {}
         THEN [two_indices_dict EXCEPT !.exc = "ValueError"]
    ELSE [two_indices_dict EXCEPT
             !.val = [k \in DOMAIN two_indices_dict.val |->
                         sum_of_groups(two_indices_dict.val[k])]]

\* sum_variables_by_two_indices(index1, index2, model, name, variables)
sum_variables_by_two_indices(index1, index2, model, name, variables) ==
    sum_two_indices(get_variables_by_two_indices(index1, index2, model, name,
                                                 variables))

-----------------------------------------------------------------------------
(* The calls of the helpers that group and sum. *)

\* the selections the callers give, and the whole list of entities
ListSelections(all) ==
    Selections(all) \cup {[model |-> FALSE, name |-> <<>>, given |-> all]}

\* and a list that holds its first entity twice
GroupSelections(all) ==
    ListSelections(all) \cup
        {[model |-> FALSE, name |-> <<>>,
          given |-> IF all = <<>> THEN <<>> ELSE all \o <<all[1]>>]}

GroupVariablesByIndex ==
    /\ Idle
    /\ \E index \in IndexInputs, sel \in GroupSelections(mVars) :
           Reads([op |-> "get_variables_by_index", index |-> index, sel |-> sel],
                 get_variables_by_index(index, sel.model, sel.name, sel.given))

GroupConstraintsByIndex ==
    /\ Idle
    /\ \E index \in IndexInputs, sel \in GroupSelections(mCons) :
           Reads([op |-> "get_constraints_by_index", index |-> index, sel |-> sel],
                 get_constraints_by_index(index, sel.model, sel.name, sel.given))

SumVariablesByIndex ==
    /\ Idle
    /\ \E index \in IndexInputs, sel \in ListSelections(mVars) :
           Reads([op |-> "sum_variables_by_index", index |-> index, sel |-> sel],
                 sum_variables_by_index(index, sel.model, sel.name, sel.given))

SumVariablesByTwoIndices ==
    /\ Idle
    /\ \E index1 \in IndexInputs, index2 \in IndexInputs,
          sel \in ListSelections(mVars) :
           Reads([op |-> "sum_variables_by_two_indices", index1 |-> index1,
                  index2 |-> index2, sel |-> sel],
                 sum_variables_by_two_indices(index1, index2, sel.model, sel.name,
                                              sel.given))

NextSum ==
    \/ GroupVariablesByIndex
    \/ GroupConstraintsByIndex
    \/ SumVariablesByIndex
    \/ SumVariablesByTwoIndices
    \/ ReturnToCaller

SpecSum == Init /\ [][NextSum]_vars

(* Writing the solution to files. *)

CSV_EXT == <<".", "c", "s", "v">>
JSON_EXT == <<".", "j", "s", "o", "n">>

VariableNameHeader ==
    << <<"V", "a", "r", "i", "a", "b", "l", "e", " ", "n", "a", "m", "e">>,
       <<"V", "a", "l", "u", "e">> >>

IndexHeader == << <<"I", "n", "d", "e", "x">>, <<"V", "a", "l", "u", "e">> >>

\* repr(x) of a float with a whole value: the solution values of the model
\* are whole
FloatRepr(n) == IntToStr(n) \o <<".", "0">>

\* a < b in Python 2: numbers are ordered by value, strings by their
\* characters, and every number comes before every string
py_less(a, b) ==
    IF a.t = "int" /\ b.t = "int" THEN a.i < b.i
    ELSE IF a.t = "str" /\ b.t = "str" THEN StrLess(a.s, b.s)
    ELSE a.t = "int"

\* the keys from the greatest down
RECURSIVE sorted_keys_descending(_)
sorted_keys_descending(S) ==
    IF S = {} THEN <<>>
    ELSE LET m == CHOOSE k \in S : \A o \in S \ {k} : py_less(o, k)
         IN  <<m>> \o sorted_keys_descending(S \ {m})

\* the keys of sorted(variables_dict.items()): the keys of a dict differ, so
\* the pairs are in the order of their keys
RECURSIVE sorted_keys(_)
sorted_keys(S) ==
    IF S = {} THEN <<>>
    ELSE LET m == CHOOSE k \in S : \A o \in S \ {k} : py_less(k, o)
         IN  <<m>> \o sorted_keys(S \ {m})

\* a file is the rows of cells a csv.writer has written to it, or the object
\* json.dump has written to it
CsvFile(rows) == [rows |-> rows, data |-> EmptyDict]
JsonFile(data) == [rows |-> <<>>, data |-> data]

\* a file that another program has left
OldFile == CsvFile(<< << <<"o", "l", "d">> >> >>)

\* what an export helper does: the exception it ends with, the entities it
\* has read and the files it leaves
Exported(exc, read, fs) == [exc |-> exc, read |-> read, files |-> fs]

\* writer.writerows([[v.varName, v.X] for v in variables])
variable_rows(variables) ==
    [i \in 1..Len(variables) |->
        <<vName[variables[i]], FloatRepr(GetAttr(vAttr, variables[i], X))>>]

write_variables(file_name, selected, named) ==
    Exported("none", named \cup Elems(selected),
             DictPut(files, file_name,
                     CsvFile(<<VariableNameHeader>> \o variable_rows(selected))))

\* print_variables_to_csv(file_name, model, name, variables)
print_variables_to_csv(file_name, model, name, variables) ==
    IF ~StrIn(CSV_EXT, file_name) THEN Exported("ValueError", {}, files)
    ELSE write_variables(file_name, variables_check(model, name, variables),
                         NamesRead(mVars, model, name, variables))

\* writer.writerows([[key, value] for key, value in sorted(variables_dict.items())])
index_rows(variables_dict, keys) ==
    [i \in 1..Len(keys) |->
        <<Format(keys[i]), FloatRepr(variables_dict[keys[i]])>>]

\* the file is open and has its header when the sums are computed: an
\* exception of sum_variables_by_index leaves the header alone in it
write_sums(file_name, variables_dict) ==
    IF variables_dict.exc # "none"
    THEN Exported(variables_dict.exc, variables_dict.read,
                  DictPut(files, file_name, CsvFile(<<IndexHeader>>)))
    ELSE Exported("none", variables_dict.read,
                  DictPut(files, file_name,
                          CsvFile(<<IndexHeader>> \o
                                  index_rows(variables_dict.val,
                                             sorted_keys(DOMAIN variables_dict.val)))))

\* print_variables_to_csv_by_index(file_name, index, model, name, variables)
print_variables_to_csv_by_index(file_name, index, model, name, variables) ==
    IF ~StrIn(CSV_EXT, file_name) THEN Exported("ValueError", {}, files)
    ELSE write_sums(file_name, sum_variables_by_index(index, model, name, variables))

\* json.dump of a dict of sums: the keys become strings
json_object(var_dict) ==
    [k \in {Format(key) : key \in DOMAIN var_dict} |->
        var_dict[CHOOSE key \in DOMAIN var_dict : Format(key) = k]]

\* data = {index_name: [{index_name: var_dict}]}; json.dump(data, open(file_name, "wb"))
json_dump(file_name, index_name, var_dict) ==
    IF var_dict.exc # "none" THEN Exported(var_dict.exc, var_dict.read, files)
    ELSE Exported("none", var_dict.read,
                  DictPut(files, file_name,
                          JsonFile(Format(index_name) :>
                                       <<Format(index_name) :>
                                             json_object(var_dict.val)>>)))

\* print_variables_to_json_by_index with the index as the key whatever the alias
print_variables_to_json_by_index_unaliased(file_name, index, model, name, variables, index_alias) ==
    IF ~StrIn(JSON_EXT, file_name) THEN Exported("ValueError", {}, files)
    ELSE json_dump(file_name, index,
                   sum_variables_by_index(index, model, name, variables))

\* print_variables_to_json_by_index(file_name, index, model, name, variables,
\* index_alias)
print_variables_to_json_by_index(file_name, index, model, name, variables, index_alias) ==
    IF ~StrIn(JSON_EXT, file_name) THEN Exported("ValueError", {}, files)
    ELSE json_dump(file_name,
                   IF Truthy(index_alias) THEN index_alias ELSE index,
                   sum_variables_by_index(index, model, name, variables))

-----------------------------------------------------------------------------
(* The calls of the export helpers. *)

\* the models that are exported: x[1,a], x[2,2], x[1,2]; x[1,2], x[2,2],
\* xy[1,2]; y[3]; and a model without variables
ExportModels == {<<3, 2, 1>>, AttrModel, <<5>>, <<>>}

\* the file names the callers give: with the extension, with another one, and
\* with the text of the extension before another one
FileNameInputs ==
    { <<"o">> \o CSV_EXT, <<"o">> \o JSON_EXT, <<"o", ".", "t">>,
      <<"o">> \o CSV_EXT \o <<".", "t">>, <<"o">> \o JSON_EXT \o <<".", "t">> }

AliasInputs == {NotGiven, PyStr(<<"k">>)}

\* the disk is empty, or holds a file of every name that another program left
InitExport ==
    /\ mVars \in ExportModels
    /\ mCons = mVars
    /\ built = [e \in EntityIds |-> EntityPool[e]]
    /\ vName = [e \in EntityIds |->
                   ComposeName(EntityPool[e].set, EntityPool[e].idx,
                               VAR_BRACKET_L, VAR_BRACKET_R)]
    /\ cName = [e \in EntityIds |->
                   ComposeName(EntityPool[e].set, EntityPool[e].idx,
                               CON_BRACKET_L, CON_BRACKET_R)]
    /\ vAttr = [e \in EntityIds |-> InitVarAttr(e)]
    /\ cAttr = [e \in EntityIds |-> InitConAttr(e)]
    /\ edits = 0
    /\ mCalls = <<>>
    /\ status = OPTIMAL
    /\ files \in {NoFiles, [n \in FileNameInputs |-> OldFile]}
    /\ last = NoCall

\* the call leaves the files as r has them
Exports(call, r) ==
    /\ last' = call @@ [exc |-> r.exc, read |-> r.read, written |-> {}]
    /\ files' = r.files
    /\ edits' = IF r.files # files THEN edits + 1 ELSE edits
    /\ UNCHANGED <<mVars, mCons, vName, cName, vAttr, cAttr, built, mCalls, status>>

PrintVariablesToCsv ==
    /\ Idle
    /\ edits < MaxEdits
    /\ \E file_name \in FileNameInputs, sel \in ListSelections(mVars) :
           Exports([op |-> "print_variables_to_csv", file_name |-> file_name,
                    sel |-> sel],
                   print_variables_to_csv(file_name, sel.model, sel.name, sel.given))

PrintVariablesToCsvByIndex ==
    /\ Idle
    /\ edits < MaxEdits
    /\ \E file_name \in FileNameInputs, index \in IndexInputs,
          sel \in ListSelections(mVars) :
           Exports([op |-> "print_variables_to_csv_by_index",
                    file_name |-> file_name, index |-> index, sel |-> sel],
                   print_variables_to_csv_by_index(file_name, index, sel.model,
                                                   sel.name, sel.given))

PrintVariablesToJsonByIndex ==
    /\ Idle
    /\ edits < MaxEdits
    /\ \E file_name \in FileNameInputs, index \in IndexInputs,
          sel \in ListSelections(mVars), index_alias \in AliasInputs :
           Exports([op |-> "print_variables_to_json_by_index",
                    file_name |-> file_name, index |-> index, sel |-> sel,
                    index_alias |-> index_alias],
                   print_variables_to_json_by_index(file_name, index, sel.model,
                                                    sel.name, sel.given,
                                                    index_alias))

NextExport ==
    \/ PrintVariablesToCsv
    \/ PrintVariablesToCsvByIndex
    \/ PrintVariablesToJsonByIndex
    \/ ReturnToCaller

SpecExport == InitExport /\ [][NextExport]_vars

(* Optimizing and writing the basis. *)

BAS_EXT == <<".", "b", "a", "s">>

\* the basis file model.write leaves; of its content only that it is a basis
\* of the model is kept
BasisFile == CsvFile(<< << <<"N", "A", "M", "E">> >> >>)

\* what optimize_write_model does: the exception it ends with, what it
\* prints, the calls it makes on the model, and the status and the files it
\* leaves
Optimized(exc, printed, calls, st, fs) ==
    [exc |-> exc, printed |-> printed, calls |-> calls, status |-> st, files |-> fs]

\* model.write(basis_name): Gurobi takes the kind of the file from the end
\* of its name and raises for a name that does not end as a basis file does
write_basis(basis_name, calls, st) ==
    IF EndsWith(basis_name, BAS_EXT)
    THEN Optimized("none", <<>>, calls \o <<ModelCall("write")>>, st,
                   DictPut(files, basis_name, BasisFile))
    ELSE Optimized("GurobiError", <<>>, calls \o <<ModelCall("write")>>, st, files)

\* model.write(basis_name) whatever the status of the model
write_always(basis_name, calls, st) == write_basis(basis_name, calls, st)

\* if model.status == gp.GRB.status.OPTIMAL: model.write(basis_name)
\* else: print "Model status: ", model.status
write_if_optimal(basis_name, calls, st) ==
    IF st = OPTIMAL THEN write_basis(basis_name, calls, st)
    ELSE Optimized("none", <<"Model status: ", st>>, calls, st, files)

\* optimize_write_model(basis_name, model, model_name): readable is whether
\* gp.read can read the file model_name, st the status optimize ends with
optimize_write_model(basis_name, model, model_name, readable, st) ==
    IF ~StrIn(BAS_EXT, basis_name)
    THEN Optimized("none", <<"Error: basis file name not specified">>, <<>>,
                   status, files)
    ELSE IF model
    THEN write_if_optimal(basis_name, <<ModelCall("optimize")>>, st)
    ELSE IF model_name # <<>>
    THEN IF readable
         THEN write_if_optimal(basis_name,
                               <<ModelCall("read"), ModelCall("optimize")>>, st)
         ELSE Optimized("GurobiError", <<>>, <<ModelCall("read")>>, status, files)
    ELSE Optimized("none", <<"Error: neither model nor model_name given">>, <<>>,
                   status, files)

-----------------------------------------------------------------------------
(* The calls of optimize_write_model. *)

BasisNameInputs ==
    { <<"o">> \o BAS_EXT, <<"o", ".", "t">>, <<"o">> \o BAS_EXT \o <<".", "t">> }

ModelNameInputs == {<<>>, <<"m", ".", "l", "p">>}

\* a model that was not optimized or was, and a disk that is empty or holds
\* a file of every name
InitWrite ==
    /\ mVars \in ExportModels
    /\ mCons = mVars
    /\ built = [e \in EntityIds |-> EntityPool[e]]
    /\ vName = [e \in EntityIds |->
                   ComposeName(EntityPool[e].set, EntityPool[e].idx,
                               VAR_BRACKET_L, VAR_BRACKET_R)]
    /\ cName = [e \in EntityIds |->
                   ComposeName(EntityPool[e].set, EntityPool[e].idx,
                               CON_BRACKET_L, CON_BRACKET_R)]
    /\ vAttr = [e \in EntityIds |-> InitVarAttr(e)]
    /\ cAttr = [e \in EntityIds |-> InitConAttr(e)]
    /\ edits = 0
    /\ mCalls = <<>>
    /\ status \in {LOADED, OPTIMAL}
    /\ files \in {NoFiles, [n \in BasisNameInputs |-> OldFile]}
    /\ last = NoCall

\* the call leaves the status and the files as r has them
Optimizes(call, r) ==
    /\ last' = call @@ [exc |-> r.exc, printed |-> r.printed, calls |-> r.calls,
                        read |-> {}, written |-> {}]
    /\ mCalls' = r.calls
    /\ status' = r.status
    /\ files' = r.files
    /\ edits' = IF r.calls # <<>> THEN edits + 1 ELSE edits
    /\ UNCHANGED <<mVars, mCons, vName, cName, vAttr, cAttr, built>>

OptimizeWriteModel ==
    /\ Idle
    /\ edits < MaxEdits
    /\ \E basis_name \in BasisNameInputs, model \in BOOLEAN,
          model_name \in ModelNameInputs, readable \in BOOLEAN,
          st \in StatusesAfterOptimize :
           Optimizes([op |-> "optimize_write_model", basis_name |-> basis_name,
                      model |-> model, model_name |-> model_name,
                      readable |-> readable],
                     optimize_write_model(basis_name, model, model_name,
                                          readable, st))

NextWrite ==
    \/ OptimizeWriteModel
    \/ ReturnToCaller

SpecWrite == InitWrite /\ [][NextWrite]_vars

-----------------------------------------------------------------------------
(* The notions the properties are stated in. *)

\* the substring of a name before its first bracket; the name if it has none
PrefixBefore(name, bracket) ==
    LET at == {i \in 1..Len(name) : name[i] = bracket}
    IN  IF at = {} THEN name
        ELSE SubSeq(name, 1, (CHOOSE i \in at : \A j \in at : i <= j) - 1)

VarSetName(v) == PrefixBefore(vName[v], VAR_BRACKET_L)
ConSetName(c) == PrefixBefore(cName[c], CON_BRACKET_L)

\* name occurs in s: s is u \o name \o w for some u and w
Occurs(name, s) ==
    \E a \in 1..(Len(s) + 1) :
        /\ a + Len(name) - 1 <= Len(s)
        /\ SubSeq(s, a, a + Len(name) - 1) = name

\* how often e is in the list q
Count(e, q) == Cardinality({i \in 1..Len(q) : q[i] = e})

\* the sum of the values of a dict of numbers
RECURSIVE SumOfDict(_, _)
SumOfDict(d, keys) ==
    IF keys = {} THEN 0
    ELSE LET k == CHOOSE x \in keys : TRUE
         IN  d[k] + SumOfDict(d, keys \ {k})

\* q lists exactly the entities of S, each once, in the order of the list all
ListsInOrder(q, S, all) ==
    /\ Elems(q) = S
    /\ \A e \in S : Count(e, q) = 1
    /\ \A i, j \in 1..Len(q) :
           i < j => \E a, b \in 1..Len(all) : a < b /\ all[a] = q[i] /\ all[b] = q[j]

\* the index value position i (from 0) of an entity was composed from
HasIndexValue(e, i, value) ==
    /\ i + 1 \in 1..Len(built[e].idx)
    /\ built[e].idx[i + 1] = value

\* the entity has a value at every position of the filter
Matches(e, filter) == \A i \in DOMAIN filter : HasIndexValue(e, i, filter[i])

-----------------------------------------------------------------------------
(* C1 *)

\* the report of list_variables / list_constraints for the entities ents
SetReport(ents, SetName(_)) ==
    LET names    == {SetName(e) : e \in Elems(ents)}
        size(nm) == Cardinality({i \in 1..Len(ents) : SetName(ents[i]) = nm})
    IN  /\ DOMAIN last.sets = names
        /\ Len(last.lines) = Cardinality(names)
        /\ \A nm \in names :
               /\ last.sets[nm] = size(nm)
               /\ \E k \in 1..Len(last.lines) :
                      last.lines[k] = nm \o <<",", " ">> \o IntToStr(size(nm))
        /\ SumOfDict(last.sets, DOMAIN last.sets) = Len(ents)

\* C1: list_variables and list_constraints report one line per distinct set
\* name (the substring of the name before the first bracket); the count of a
\* set is the number of entities of the model with that set name, and the
\* counts sum to the number of entities of the model.
C1_SetCounts ==
    /\ last.op = "list_variables" => SetReport(mVars, VarSetName)
    /\ last.op = "list_constraints" => SetReport(mCons, ConSetName)

\* a report of two sets, one of them of two variables
C1_Witness ==
    /\ last.op = "list_variables"
    /\ Cardinality(DOMAIN last.sets) = 2
    /\ \E nm \in DOMAIN last.sets : last.sets[nm] = 2

-----------------------------------------------------------------------------
(* C2 *)

\* the entities a lookup by set name is to return
Looked(ents, SetName(_), name, approx) ==
    IF name = <<>> THEN Elems(ents)
    ELSE IF approx THEN {e \in Elems(ents) : Occurs(name, SetName(e))}
    ELSE {e \in Elems(ents) : SetName(e) = name}

\* C2: without a filter, get_variables returns exactly the variables whose set
\* name equals name (approx False) or contains name (approx True), each once
\* and in model order, so the exact result is within the approx result; with
\* an empty name it returns all variables.  get_constraints does the same.
C2_LookupBySetName ==
    /\ (last.op = "get_variables" /\ DOMAIN last.filter = {}) =>
           /\ last.exc = "none"
           /\ ListsInOrder(last.val,
                           Looked(mVars, VarSetName, last.name, last.approx), mVars)
           /\ last.name = <<>> => last.val = mVars
           /\ ~last.approx =>
                  Elems(last.val) \subseteq
                      Elems(get_variables(last.name, TRUE, EmptyDict).val)
    /\ last.op = "get_constraints" =>
           /\ ListsInOrder(last.val,
                           Looked(mCons, ConSetName, last.name, last.approx), mCons)
           /\ last.name = <<>> => last.val = mCons
           /\ ~last.approx =>
                  Elems(last.val) \subseteq Elems(get_constraints(last.name, TRUE))

\* an approx lookup that returns variables of two sets, more than the exact one
C2_Witness ==
    /\ last.op = "get_variables"
    /\ DOMAIN last.filter = {}
    /\ last.approx
    /\ last.name # <<>>
    /\ \E v, w \in Elems(last.val) :
           VarSetName(v) = last.name /\ VarSetName(w) # last.name

-----------------------------------------------------------------------------
(* C3 *)

\* the variables of set name that the filter selects (exclude: the others)
Selected(name, filter, exclude) ==
    {v \in Elems(mVars) :
        VarSetName(v) = name /\ (Matches(v, filter) <=> ~exclude)}

\* C3: with a non-empty filter F, get_variables(model, name, filter_values=F)
\* and get_variables_by_index_values(model, name, F) return exactly the
\* variables of set name whose index value at position i is F[i] for every
\* position i of F; with exclude=True, exactly the other variables of the set.
C3_FilteredLookup ==
    (/\ last.op \in {"get_variables", "get_variables_by_index_values"}
     /\ last.name # <<>>
     /\ DOMAIN last.filter # {}
     /\ last.op = "get_variables" => ~last.approx) =>
        /\ last.exc = "none"
        /\ Elems(last.val) = Selected(last.name, last.filter, last.exclude)
        /\ \A v \in Elems(last.val) : Count(v, last.val) = 1

-----------------------------------------------------------------------------
(* C4 *)

\* the filter has a position for every index of the given entities only
FilterInRange(given, filter) ==
    \A e \in Elems(given) : \A i \in DOMAIN filter : i + 1 \in 1..Len(built[e].idx)

\* kept and dropped split the list given: nothing in both, everything once
Splits(given, kept, dropped) ==
    /\ Elems(kept) \cap Elems(dropped) = {}
    /\ \A e \in Elems(given) : Count(e, kept) + Count(e, dropped) = 1
    /\ Elems(kept) \cup Elems(dropped) = Elems(given)

\* C4: for a non-empty collection of distinct entities and a non-empty filter,
\* the result with exclude=False and the result with exclude=True have no
\* entity in common and together hold every entity of the collection once;
\* for filter_variables and for filter_constraints_by_index_value.
C4_FilterPartition ==
    /\ (/\ last.op = "filter_variables"
        /\ last.given # <<>>
        /\ DOMAIN last.filter # {}
        /\ FilterInRange(last.given, last.filter)) =>
           LET r == Filtered(filter_variables(last.given, last.filter))
           IN  /\ last.exc = "none"
               /\ \A other \in Returned(r, ~last.exclude) :
                      /\ other.exc = "none"
                      /\ Splits(last.given, last.val, other.val)
    /\ (/\ last.op = "filter_constraints_by_index_value"
        /\ last.given # <<>>
        /\ DOMAIN last.filter # {}
        /\ FilterInRange(last.given, last.filter)) =>
           LET r == Filtered(filter_constraints_by_index_value(last.given,
                                                               last.filter))
           IN  /\ last.exc = "none"
               /\ \A other \in Returned(r, ~last.exclude) :
                      /\ other.exc = "none"
                      /\ Splits(last.given, last.val, other.val)

-----------------------------------------------------------------------------
(* C5 *)

\* a token that reads as a number: digits, after an optional sign
Numeric(t) ==
    LET digits == IF Len(t) > 0 /\ t[1] = "-" THEN Tail(t) ELSE t
    IN  Len(digits) > 0 /\ \A k \in 1..Len(digits) : IsDigit(digits[k])

\* the value of a numeric token, digit by digit
TokenNumber(t) ==
    LET digits == IF t[1] = "-" THEN Tail(t) ELSE t
        RECURSIVE power(_)
        power(n) == IF n = 0 THEN 1 ELSE 10 * power(n - 1)
        RECURSIVE total(_)
        total(k) == IF k = 0 THEN 0
                    ELSE DigitVal(digits[k]) * power(Len(digits) - k) + total(k - 1)
    IN  IF t[1] = "-" THEN 0 - total(Len(digits)) ELSE total(Len(digits))

\* the index value of a token: the integer if it is numeric, else the string
TokenValue(t) == IF Numeric(t) THEN PyInt(TokenNumber(t)) ELSE PyStr(t)

\* the call extracts a position the entity's name has
ExtractsAt(op) ==
    /\ last.op = op
    /\ last.index + 1 \in 1..Len(built[last.entity].idx)

\* C5: for an entity named set[v0,...,vN-1] or set(v0,...,vN-1), N >= 1, and a
\* position i < N, get_variable_index_value / get_constraint_index_value
\* return the token vi without the enclosing bracket and the surrounding
\* spaces, as an integer when the token is numeric and as the string
\* otherwise; also for N = 1, where the only token carries both brackets.
C5_IndexValue ==
    (ExtractsAt("get_variable_index_value")
        \/ ExtractsAt("get_constraint_index_value")) =>
        /\ last.exc = "none"
        /\ last.val = TokenValue(Format(built[last.entity].idx[last.index + 1]))

-----------------------------------------------------------------------------
(* C6 *)

\* C6: composing the name set[v0,...,vN-1] from a set name and a list of
\* N >= 1 integers or bracket-free, comma-free strings, and then extracting
\* index i, yields the original vi, the same value of the same type.
C6_RoundTrip ==
    (ExtractsAt("get_variable_index_value") /\ built[last.entity].pad = <<>>) =>
        /\ last.exc = "none"
        /\ last.val = built[last.entity].idx[last.index + 1]

-----------------------------------------------------------------------------
(* C7 *)

\* the name equals, ignoring case, a name of the list
Whitelisted(attr, attributes) ==
    \E i \in 1..Len(attributes) : Lower(attr) = Lower(attributes[i])

\* the list the helper of a call validates against
AttrListOf(op) ==
    IF op \in {"get_variables_attr", "set_variables_attr"}
    THEN VAR_ATTRS ELSE CON_ATTRS

AttrOps == {"get_variables_attr", "set_variables_attr",
            "get_constraints_attr", "set_constraints_attr"}

\* nothing of the model differs after the step
ModelUnchanged ==
    /\ mVars' = mVars
    /\ mCons' = mCons
    /\ vName' = vName
    /\ cName' = cName
    /\ vAttr' = vAttr
    /\ cAttr' = cAttr

\* C7: a step of get_variables_attr, set_variables_attr, get_constraints_attr
\* or set_constraints_attr with a non-empty attribute name that is, ignoring
\* case, no name of VAR_ATTRS (CON_ATTRS) ends with AttributeError, has read
\* and written no attribute of any entity, and leaves the model as it was;
\* with a name of the list, the getters, and the setters given a value the
\* value guard lets through, do not end with AttributeError.
C7_AttributeWhitelist ==
    [][ last'.op \in AttrOps =>
          /\ (last'.attr # <<>> /\ ~Whitelisted(last'.attr, AttrListOf(last'.op))) =>
                 /\ last'.exc = "AttributeError"
                 /\ last'.read = {}
                 /\ last'.written = {}
                 /\ ModelUnchanged
          /\ (/\ Whitelisted(last'.attr, AttrListOf(last'.op))
              /\ Truthy(last'.arg) \/ last'.op \in {"get_variables_attr",
                                                    "get_constraints_attr"}) =>
                 last'.exc # "AttributeError" ]_vars

\* a setter given a value has refused a name that only starts with a name of
\* the list
C7_Witness ==
    /\ last.op = "set_variables_attr"
    /\ last.attr = <<"L", "B", "S">>
    /\ Truthy(last.arg)
    /\ last.exc = "AttributeError"
    /\ last.written = {}

-----------------------------------------------------------------------------
(* C8 *)

\* the entities a selection stands for
SelectionOf(all, SetName(_), sel) ==
    IF sel.given # <<>> THEN Elems(sel.given)
    ELSE IF sel.model /\ sel.name # <<>>
         THEN {e \in Elems(all) : SetName(e) = sel.name}
    ELSE IF sel.model THEN Elems(all)
    ELSE {}

\* the value an entity has for an attribute, named in any case
AttrOf(store, e, attr) ==
    store[e][CHOOSE a \in DOMAIN store[e] : Lower(a) = Lower(attr)]

\* the mapping has one entry per name of the entities, each the value of attr
\* of the entity with that name
MapsAttr(mapping, ents, names, store, attr) ==
    /\ DOMAIN mapping = {names[e] : e \in ents}
    /\ \A e \in ents : mapping[names[e]] = AttrOf(store, e, attr)

\* C8: a step of get_variables_attr (get_constraints_attr) that returns,
\* returns a mapping with exactly one entry per name of a selected variable
\* (constraint), each name mapped to the value attr has on the selected entity
\* with that name at the time of the call, and changes no attribute, no name
\* and no membership of the model.
C8_GetAttr ==
    [][ /\ (last'.op = "get_variables_attr" /\ last'.exc = "none") =>
               /\ MapsAttr(last'.val, SelectionOf(mVars, VarSetName, last'.sel),
                           vName, vAttr, last'.attr)
               /\ ModelUnchanged
        /\ (last'.op = "get_constraints_attr" /\ last'.exc = "none") =>
               /\ MapsAttr(last'.val, SelectionOf(mCons, ConSetName, last'.sel),
                           cName, cAttr, last'.attr)
               /\ ModelUnchanged ]_vars

\* after a lower bound was set on one variable, the lower bounds of several
\* variables are read and differ
C8_Witness ==
    /\ last.op = "get_variables_attr"
    /\ last.exc = "none"
    /\ Lower(last.attr) = Lower(LB)
    /\ edits > 0
    /\ \E n, m \in DOMAIN last.val : last.val[n] # last.val[m]

-----------------------------------------------------------------------------
(* C9 *)

\* the store after attr is val on the entities ents and nothing else differs
SetsOnly(before, after, ents, attr, val) ==
    /\ DOMAIN after = DOMAIN before
    /\ \A e \in DOMAIN before :
           /\ DOMAIN after[e] = DOMAIN before[e]
           /\ \A a \in DOMAIN before[e] :
                  after[e][a] = IF e \in ents /\ Lower(a) = Lower(attr)
                                THEN val ELSE before[e][a]

\* C9: a step of set_variables_attr (set_constraints_attr) with an attribute
\* of the list, any value including 0, and a model or a list of entities,
\* gives the attribute the value on every selected entity and leaves every
\* other entity and every other attribute as it was.
C9_SetAttr ==
    [][ /\ (/\ last'.op = "set_variables_attr"
            /\ Whitelisted(last'.attr, VAR_ATTRS)
            /\ last'.sel.model \/ last'.sel.given # <<>>) =>
               /\ last'.exc = "none"
               /\ SetsOnly(vAttr, vAttr', SelectionOf(mVars, VarSetName, last'.sel),
                           last'.attr, last'.arg.i)
               /\ cAttr' = cAttr
        /\ (/\ last'.op = "set_constraints_attr"
            /\ Whitelisted(last'.attr, CON_ATTRS)
            /\ last'.sel.model \/ last'.sel.given # <<>>) =>
               /\ last'.exc = "none"
               /\ SetsOnly(cAttr, cAttr', SelectionOf(mCons, ConSetName, last'.sel),
                           last'.attr, last'.arg.i)
               /\ vAttr' = vAttr ]_vars

-----------------------------------------------------------------------------
(* C10 *)

\* a bound of the call is supplied: it is not the "" of the default
Supplied(bound) == bound # NotGiven

\* the attribute is the bound on the entities ents if the bound is supplied,
\* and as it was on every entity if it is not
BoundSet(before, after, ents, attr, bound) ==
    IF Supplied(bound)
    THEN \A e \in ents : after[e][attr] = bound.i
    ELSE \A e \in DOMAIN before : after[e][attr] = before[e][attr]

\* C10: a step of set_variables_bounds with a model or a list of variables
\* sets the lower bound of every selected variable to lb when lb is supplied
\* and the upper bound to ub when ub is supplied, for every numeric bound
\* including 0, and leaves a bound that is not supplied as it was on every
\* variable.
C10_SetBounds ==
    [][ (/\ last'.op = "set_variables_bounds"
         /\ last'.sel.model \/ last'.sel.given # <<>>) =>
            /\ BoundSet(vAttr, vAttr', SelectionOf(mVars, VarSetName, last'.sel),
                        LB, last'.arg.lb)
            /\ BoundSet(vAttr, vAttr', SelectionOf(mVars, VarSetName, last'.sel),
                        UB, last'.arg.ub) ]_vars

-----------------------------------------------------------------------------
(* C11 *)

\* the helpers that edit the model
MutatingOps ==
    {"set_variables_attr", "set_variables_bounds", "zero_all_objective_coeffs",
     "set_constraints_attr", "set_constraints_rhs_as_percent",
     "remove_variables_from_model", "remove_constraints_from_model",
     "add_constraint_constant", "add_constraint_variables"}

\* the calls on the model object that are solver steps
SolverSteps == {"update", "reset", "optimize"}

\* a solver step is among the calls made on the model
Solves == \E i \in 1..Len(mCalls) : mCalls[i].m \in SolverSteps

\* C11: in every sequence of helper calls, no call of set_variables_attr,
\* set_variables_bounds, zero_all_objective_coeffs, set_constraints_attr,
\* set_constraints_rhs_as_percent, remove_variables_from_model,
\* remove_constraints_from_model, add_constraint_constant or
\* add_constraint_variables makes the model update, reset or optimize: these
\* steps are made only by reoptimize and by the caller.
C11_NoSolverStep ==
    /\ last.op \in MutatingOps => ~Solves
    /\ Solves => last.op \in {"reoptimize", "caller"}

\* a removal has been issued for two variables and no solver step made
C11_Witness ==
    /\ last.op = "remove_variables_from_model"
    /\ last.exc = "none"
    /\ Len(mCalls) = 2
    /\ \A i \in 1..Len(mCalls) : mCalls[i].m = "remove"
    /\ Len(mVars) = 1


\* the calls made on the model object, by name, in order
CallNames == [i \in 1..Len(mCalls) |-> mCalls[i].m]

\* C20: a step of reoptimize(m) calls update, reset and optimize on the
\* model, each once and in that order, makes no other call on it, reads and
\* writes no attribute, and leaves the variables, the constraints and their
\* attributes as they were.
C20_Reoptimize ==
    [][ last'.op = "reoptimize" =>
          /\ CallNames' = <<"update", "reset", "optimize">>
          /\ last'.exc = "none"
          /\ last'.read = {}
          /\ last'.written = {}
          /\ ModelUnchanged ]_vars

\* reoptimize has run on a model whose attributes were edited before and
\* the solver has found a status
C20_Witness ==
    /\ last.op = "reoptimize"
    /\ Len(mCalls) = 3
    /\ status \in StatusesAfterOptimize

\* C15: a step of add_constraint_variables with an empty variables1 or
\* variables2, and a step of set_constraints_rhs_as_percent without a
\* percent, ends with an exception and leaves the model as it was.
C15_MissingArgument ==
    [][ (\/ /\ last'.op = "add_constraint_variables"
            /\ last'.variables1 = <<>> \/ last'.variables2 = <<>>
         \/ /\ last'.op = "set_constraints_rhs_as_percent"
            /\ last'.percent = NotGiven) =>
          /\ last'.exc # "none"
          /\ ModelUnchanged ]_vars


ArgOps == {"get_variables_attr", "set_variables_attr", "get_constraints_attr",
           "set_constraints_attr", "get_variables_by_index",
           "get_constraints_by_index", "remove_variables_from_model",
           "zero_all_objective_coeffs"}

\* the call c lacks an argument it needs: the attribute name is empty, no
\* index is given, or neither a model nor a collection is given
MissingArgument(c) ==
    \/ c.op \in AttrOps /\ c.attr = <<>>
    \/ c.op \in {"get_variables_by_index", "get_constraints_by_index"}
           /\ c.index = NotGiven
    \/ ~c.sel.model /\ c.sel.given = <<>>

\* C14: a step of get_variables_attr, set_variables_attr,
\* get_constraints_attr, set_constraints_attr, get_variables_by_index,
\* get_constraints_by_index, remove_variables_from_model or
\* zero_all_objective_coeffs that lacks a required argument ends with
\* AttributeError, IndexError or ValueError, has read and written nothing of
\* any entity, has made no call on the model, and leaves the model as it was.
C14_MissingArgument ==
    [][ (last'.op \in ArgOps /\ MissingArgument(last')) =>
          /\ last'.exc \in {"AttributeError", "IndexError", "ValueError"}
          /\ last'.read = {}
          /\ last'.written = {}
          /\ mCalls' = <<>>
          /\ ModelUnchanged ]_vars

\* remove_variables_from_model, given neither a model nor variables, has
\* ended with ValueError on a model that still has its three variables
C14_Witness ==
    /\ last.op = "remove_variables_from_model"
    /\ ~last.sel.model
    /\ last.sel.given = <<>>
    /\ last.exc = "ValueError"
    /\ Len(mVars) = 3


\* the index value the entity e was built with at position index, counted
\* from the end when index is negative
IndexAt(e, index) ==
    built[e].idx[IF index < 0 THEN Len(built[e].idx) + index + 1 ELSE index + 1]

\* the total of the solution values of the variables of S
RECURSIVE TotalX(_)
TotalX(S) ==
    IF S = {} THEN 0
    ELSE LET v == CHOOSE x \in S : TRUE
         IN  vAttr[v][X] + TotalX(S \ {v})

\* the mapping has a key for exactly the index values the variables of S have
\* at position index, each with the total X of the variables that have it
SumsByIndex(mapping, S, index) ==
    /\ DOMAIN mapping = {IndexAt(e, index) : e \in S}
    /\ \A k \in DOMAIN mapping :
           mapping[k] = TotalX({e \in S : IndexAt(e, index) = k})

\* C12: a call of sum_variables_by_index(index, ...) that returns, returns a
\* mapping whose keys are exactly the distinct index values the selected
\* variables have at position index, each key with the sum of X of the
\* selected variables that have it there; the values of the mapping sum to
\* the total X of the selection.
C12_SumByIndex ==
    (last.op = "sum_variables_by_index" /\ last.exc = "none") =>
        /\ SumsByIndex(last.val, SelectionOf(mVars, VarSetName, last.sel),
                       last.index.i)
        /\ SumOfDict(last.val, DOMAIN last.val)
               = TotalX(SelectionOf(mVars, VarSetName, last.sel))


\* the nested mapping has an outer key for exactly the values the variables
\* of S have at position index1, and under it the sums by index2 of the
\* variables that have that value
NestedSums(mapping, S, index1, index2) ==
    /\ DOMAIN mapping = {IndexAt(e, index1) : e \in S}
    /\ \A k1 \in DOMAIN mapping :
           SumsByIndex(mapping[k1], {e \in S : IndexAt(e, index1) = k1}, index2)

\* under every outer key the inner values sum to the value of the flat mapping
InnerSums(mapping, flat) ==
    /\ flat.exc = "none"
    /\ DOMAIN mapping = DOMAIN flat.val
    /\ \A k1 \in DOMAIN mapping :
           SumOfDict(mapping[k1], DOMAIN mapping[k1]) = flat.val[k1]

\* C13: a call of sum_variables_by_two_indices(i1, i2, ...) that returns,
\* returns a nested mapping with an entry result[k1][k2] for exactly the pairs
\* of values (k1, k2) the selected variables have at the positions i1 and i2,
\* each the sum of X of the selected variables with that pair; for every k1
\* the inner values sum to sum_variables_by_index(i1, ...)[k1] of the same
\* selection.
C13_SumByTwoIndices ==
    (last.op = "sum_variables_by_two_indices" /\ last.exc = "none") =>
        /\ NestedSums(last.val, SelectionOf(mVars, VarSetName, last.sel),
                      last.index1.i, last.index2.i)
        /\ InnerSums(last.val,
                     sum_variables_by_index(last.index1, last.sel.model,
                                            last.sel.name, last.sel.given))


ExportOps == {"print_variables_to_csv", "print_variables_to_csv_by_index",
              "print_variables_to_json_by_index"}

\* the extension the export helper op asks for
ExtensionOf(op) ==
    IF op = "print_variables_to_json_by_index" THEN JSON_EXT ELSE CSV_EXT

\* C16: a step of print_variables_to_csv or print_variables_to_csv_by_index
\* with a file name that does not end with .csv, and a step of
\* print_variables_to_json_by_index with a file name that does not end with
\* .json, ends with ValueError and leaves every file as it was, none created
\* and none truncated; a name that has the text of the extension elsewhere
\* than at its end is such a name.
C16_ExtensionMismatch ==
    [][ (last'.op \in ExportOps
         /\ ~EndsWith(last'.file_name, ExtensionOf(last'.op))) =>
          /\ last'.exc = "ValueError"
          /\ files' = files ]_vars

\* the selected entities in the order of the collection they are taken from
SelectedList(all, SetName(_), sel) ==
    IF sel.given # <<>> THEN sel.given
    ELSE IF sel.model /\ sel.name # <<>>
         THEN SelectSeq(all, LAMBDA e : SetName(e) = sel.name)
    ELSE IF sel.model THEN all
    ELSE <<>>

\* the rows are one row (name, X) per variable of the list, in its order
RowsOfVariables(rows, variables) ==
    /\ Len(rows) = Len(variables)
    /\ \A i \in 1..Len(rows) :
           rows[i] = <<vName[variables[i]], FloatRepr(vAttr[variables[i]][X])>>

\* the rows are one row (key, sum) per key of the mapping, the keys ascending
RowsOfSums(rows, mapping) ==
    /\ Len(rows) = Cardinality(DOMAIN mapping)
    /\ \A i \in 1..Len(rows) : \E k \in DOMAIN mapping :
           rows[i] = <<Format(k), FloatRepr(mapping[k])>>
    /\ \A i, j \in 1..Len(rows) : i < j =>
           \E k1, k2 \in DOMAIN mapping :
               /\ rows[i][1] = Format(k1)
               /\ rows[j][1] = Format(k2)
               /\ py_less(k1, k2)

\* C17: after a call of print_variables_to_csv that returns, the file holds
\* the header row (Variable name, Value) and then exactly one row (name, X)
\* per selected variable, in the order of the collection, and nothing of what
\* it held before; after a call of print_variables_to_csv_by_index that
\* returns, it holds the header row (Index, Value) and then exactly one row
\* (key, sum) per key of sum_variables_by_index of the same selection, the
\* keys ascending.
C17_CsvContent ==
    /\ (last.op = "print_variables_to_csv" /\ last.exc = "none") =>
           /\ last.file_name \in DOMAIN files
           /\ files[last.file_name].data = EmptyDict
           /\ Len(files[last.file_name].rows) >= 1
           /\ Head(files[last.file_name].rows) = VariableNameHeader
           /\ RowsOfVariables(Tail(files[last.file_name].rows),
                              SelectedList(mVars, VarSetName, last.sel))
    /\ (last.op = "print_variables_to_csv_by_index" /\ last.exc = "none") =>
           /\ last.file_name \in DOMAIN files
           /\ files[last.file_name].data = EmptyDict
           /\ Len(files[last.file_name].rows) >= 1
           /\ Head(files[last.file_name].rows) = IndexHeader
           /\ RowsOfSums(Tail(files[last.file_name].rows),
                         sum_variables_by_index(last.index, last.sel.model,
                                                last.sel.name, last.sel.given).val)

\* print_variables_to_csv_by_index has written the sums of x[1,a], x[2,2]
\* and x[1,2] by their second index: the row of 2 before the row of a
C17_Witness ==
    /\ last.op = "print_variables_to_csv_by_index"
    /\ last.exc = "none"
    /\ Len(files[last.file_name].rows) = 3
    /\ files[last.file_name].rows[2][1] = <<"2">>
    /\ files[last.file_name].rows[3][1] = <<"a">>

\* the object has the single key K, and under it a list of one object that
\* has the single key K, and under it the mapping with its keys as text
JsonOfSums(data, K, mapping) ==
    /\ DOMAIN data = {K}
    /\ Len(data[K]) = 1
    /\ DOMAIN data[K][1] = {K}
    /\ DOMAIN data[K][1][K] = {Format(k) : k \in DOMAIN mapping}
    /\ \A k \in DOMAIN mapping : data[K][1][K][Format(k)] = mapping[k]

\* C18: after a call of print_variables_to_json_by_index that returns, the
\* file holds one object with a single top-level key K whose value is a list
\* of exactly one object, which maps K to the result of
\* sum_variables_by_index of the selection; K is index_alias when
\* index_alias is not empty, and the index otherwise.
C18_JsonContent ==
    (last.op = "print_variables_to_json_by_index" /\ last.exc = "none") =>
        /\ last.file_name \in DOMAIN files
        /\ files[last.file_name].rows = <<>>
        /\ JsonOfSums(files[last.file_name].data,
                      IF last.index_alias # NotGiven THEN last.index_alias.s
                      ELSE Format(last.index),
                      sum_variables_by_index(last.index, last.sel.model,
                                             last.sel.name, last.sel.given).val)

\* print_variables_to_json_by_index has written the sums of two index values
\* under an alias
C18_Witness ==
    /\ last.op = "print_variables_to_json_by_index"
    /\ last.exc = "none"
    /\ last.index_alias = PyStr(<<"k">>)
    /\ <<"k">> \in DOMAIN files[last.file_name].data
    /\ Cardinality(DOMAIN files[last.file_name].data[<<"k">>][1][<<"k">>]) = 2


\* the places of the call m in the list of calls made on the model
Places(calls, m) == {i \in 1..Len(calls) : calls[i].m = m}

\* the model was optimized exactly once; afterwards the basis file was
\* written if and only if the status is OPTIMAL; with another status the
\* status was reported, no file was written and nothing was raised; the
\* write did not precede the optimize
OptimizedOnceThenWritten(call, calls, st, before, after) ==
    /\ Cardinality(Places(calls, "optimize")) = 1
    /\ Cardinality(Places(calls, "write")) = (IF st = OPTIMAL THEN 1 ELSE 0)
    /\ \A w \in Places(calls, "write") : \A o \in Places(calls, "optimize") : o < w
    /\ st = OPTIMAL => after = DictPut(before, call.basis_name, BasisFile)
    /\ st # OPTIMAL =>
           /\ call.printed = <<"Model status: ", st>>
           /\ after = before
           /\ call.exc = "none"

PassesChecks(call) ==
    /\ EndsWith(call.basis_name, BAS_EXT)
    /\ \/ call.model
       \/ call.model_name # <<>> /\ call.readable

PartitionsByIndex(groups, list, index) ==
    /\ \A k \in DOMAIN groups : groups[k] # <<>>
    /\ \A e \in Elems(list) : IndexAt(e, index) \in DOMAIN groups
    /\ \A k \in DOMAIN groups :
           groups[k] = SelectSeq(list, LAMBDA e : IndexAt(e, index) = k)

\* C21: the groups a call of get_variables_by_index (get_constraints_by_index)
\* returns partition the selection: every selected entity is in exactly one
\* group, the group whose key is its index value at the given position, as
\* many times as it is in the selection and in selection order, and no group
\* is empty.
C21_GroupsPartition ==
    /\ (last.op = "get_variables_by_index" /\ last.exc = "none") =>
           PartitionsByIndex(last.val, SelectedList(mVars, VarSetName, last.sel),
                             last.index.i)
    /\ (last.op = "get_constraints_by_index" /\ last.exc = "none") =>
           PartitionsByIndex(last.val, SelectedList(mCons, ConSetName, last.sel),
                             last.index.i)


\* the call names entities to group: a list of them, or a model and a set name
NamesEntities(sel) == sel.given # <<>> \/ (sel.model /\ sel.name # <<>>)

\* two entities of the list are in the same group exactly if they have the
\* same first index value, and every entity of the list is in a group
GroupedByFirstIndex(groups, list) ==
    /\ \A e \in Elems(list) : \E k \in DOMAIN groups : e \in Elems(groups[k])
    /\ \A k \in DOMAIN groups : Elems(groups[k]) \subseteq Elems(list)
    /\ \A e1, e2 \in Elems(list) :
           (\E k \in DOMAIN groups : {e1, e2} \subseteq Elems(groups[k]))
               <=> IndexAt(e1, 0) = IndexAt(e2, 0)

\* C22: position 0 is a valid grouping position for both kinds of entity: a
\* call of get_variables_by_index(0, ...) and a call of
\* get_constraints_by_index(0, ...) that names entities to group returns the
\* selection grouped by the first index value, and does not end with the
\* IndexError of a missing index.
C22_IndexZero ==
    /\ (/\ last.op = "get_variables_by_index"
        /\ last.index = PyInt(0)
        /\ NamesEntities(last.sel)) =>
           /\ last.exc = "none"
           /\ GroupedByFirstIndex(last.val, SelectedList(mVars, VarSetName, last.sel))
    /\ (/\ last.op = "get_constraints_by_index"
        /\ last.index = PyInt(0)
        /\ NamesEntities(last.sel)) =>
           /\ last.exc = "none"
           /\ GroupedByFirstIndex(last.val, SelectedList(mCons, ConSetName, last.sel))


\* C23: filter_constraints_by_index_value with exclude=False selects by the
\* rule of filter_variables: given constraints that have every position of a
\* filter on several index positions, it returns exactly the given
\* constraints that match every entry of the filter, each once and in the
\* order they were given.
C23_FilterConstraints ==
    (/\ last.op = "filter_constraints_by_index_value"
     /\ ~last.exclude
     /\ last.given # <<>>
     /\ Cardinality(DOMAIN last.filter) >= 2
     /\ FilterInRange(last.given, last.filter)) =>
        /\ last.exc = "none"
        /\ last.val = SelectSeq(last.given, LAMBDA c : Matches(c, last.filter))


\* C24: a step of set_constraints_rhs_as_percent(percent, ...) that is given
\* a number and returns sets the right-hand side of every selected
\* constraint to percent percent of the right-hand side it had before the
\* step (100 leaves it as it was, 0 makes it 0), and leaves the right-hand
\* side of every constraint that is not selected as it was.
C24_RhsAsPercent ==
    [][ (/\ last'.op = "set_constraints_rhs_as_percent"
         /\ last'.percent.t = "int"
         /\ last'.exc = "none") =>
          /\ \A c \in SelectionOf(mCons, ConSetName, last'.sel) :
                 100 * cAttr'[c][RHS] = last'.percent.i * cAttr[c][RHS]
          /\ \A c \in DOMAIN cAttr \ SelectionOf(mCons, ConSetName, last'.sel) :
                 cAttr'[c][RHS] = cAttr[c][RHS] ]_vars


\* one removal for each entity of the list, in its order
RemovalsOf(list) == [i \in 1..Len(list) |-> Removal(list[i])]

\* C25: a step of remove_variables_from_model or
\* remove_constraints_from_model that returns has called model.remove for
\* exactly the selected entities, each once: the entities of the list when a
\* non-empty one is given, whatever the name; otherwise the entities of the
\* set name; otherwise, with an empty name, every entity of the model. A name
\* that no entity has removes nothing, and no entity outside the selection
\* leaves the model.
C25_Removals ==
    [][ /\ (last'.op = "remove_variables_from_model" /\ last'.exc = "none") =>
               /\ mCalls' = RemovalsOf(SelectedList(mVars, VarSetName, last'.sel))
               /\ mVars' = SelectSeq(mVars, LAMBDA v :
                              v \notin Elems(SelectedList(mVars, VarSetName, last'.sel)))
               /\ mCons' = mCons
        /\ (last'.op = "remove_constraints_from_model" /\ last'.exc = "none") =>
               /\ mCalls' = RemovalsOf(SelectedList(mCons, ConSetName, last'.sel))
               /\ mCons' = SelectSeq(mCons, LAMBDA c :
                              c \notin Elems(SelectedList(mCons, ConSetName, last'.sel)))
               /\ mVars' = mVars ]_vars

\* remove_variables_from_model, given the set name x and a list that holds
\* only xy[1,2], has removed xy[1,2] and no variable of the set x
C25_Witness ==
    /\ last.op = "remove_variables_from_model"
    /\ last.exc = "none"
    /\ last.sel.name = <<"x">>
    /\ last.sel.given = <<4>>
    /\ mCalls = <<Removal(4)>>
    /\ mVars = <<1, 2>>


\* the Gurobi sense a sense string stands for
SenseOf(sense) ==
    IF sense = <<"<">> THEN "LESS_EQUAL"
    ELSE IF sense = <<">">> THEN "GREATER_EQUAL"
    ELSE "EQUAL"

\* C26: a step of add_constraint_constant with a non-empty list of variables
\* and the sense string '<', '>' or '=' adds exactly one constraint to the
\* model, the sum of the given variables less-or-equal, greater-or-equal or
\* equal to the constant, and changes nothing else; with an empty list or
\* any other sense string the step ends with ValueError and adds no
\* constraint.
C26_AddConstraintConstant ==
    [][ last'.op = "add_constraint_constant" =>
          IF last'.variables # <<>> /\ last'.sense \in {<<"<">>, <<">">>, <<"=">>}
          THEN /\ last'.exc = "none"
               /\ Len(mCalls') = 1
               /\ mCalls'[1].m = "addConstr"
               /\ mCalls'[1].row.lhs = last'.variables
               /\ mCalls'[1].row.sense = SenseOf(last'.sense)
               /\ mCalls'[1].row.rhs = <<>>
               /\ mCalls'[1].row.constant = last'.constant
               /\ mCons' = Append(mCons, mCalls'[1].e)
               /\ mCalls'[1].e \notin Elems(mCons)
               /\ cAttr'[mCalls'[1].e][RHS] = last'.constant
               /\ \A c \in Elems(mCons) :
                      cAttr'[c] = cAttr[c] /\ cName'[c] = cName[c]
               /\ mVars' = mVars
               /\ vAttr' = vAttr
          ELSE /\ last'.exc = "ValueError"
               /\ mCalls' = <<>>
               /\ ModelUnchanged ]_vars

\* add_constraint_constant has added the constraint x[1,2] + x[2,2] +
\* xy[1,2] >= 3 to a model of three constraints
C26_Witness ==
    /\ last.op = "add_constraint_constant"
    /\ last.exc = "none"
    /\ last.sense = <<">">>
    /\ last.variables = <<1, 2, 4>>
    /\ Len(mCons) = 4
    /\ mCalls[1].row.sense = "GREATER_EQUAL"
    /\ cAttr[mCons[4]][RHS] = 3


\* C27: check_if_name_a_variable(name, model) returns True if and only if at
\* least one variable of the model has a set name that equals name, for
\* every name, the empty string among them; check_if_name_a_constraint does
\* the same for the constraints.
C27_NameOfASet ==
    /\ last.op = "check_if_name_a_variable" =>
           (last.val <=> \E v \in Elems(mVars) : VarSetName(v) = last.name)
    /\ last.op = "check_if_name_a_constraint" =>
           (last.val <=> \E c \in Elems(mCons) : ConSetName(c) = last.name)


\* C28: a step of print_variables_to_csv_by_index or
\* print_variables_to_json_by_index whose file name is accepted and whose
\* aggregation fails (sum_variables_by_index raises, as it does when no
\* variable is selected) ends with the exception of the aggregation and
\* leaves every file, the target among them, exactly as it was before the
\* step.
C28_FailedAggregation ==
    [][ (/\ last'.op \in {"print_variables_to_csv_by_index",
                          "print_variables_to_json_by_index"}
         /\ StrIn(ExtensionOf(last'.op), last'.file_name)
         /\ sum_variables_by_index(last'.index, last'.sel.model, last'.sel.name,
                                   last'.sel.given).exc # "none") =>
          /\ last'.exc = sum_variables_by_index(last'.index, last'.sel.model,
                                                last'.sel.name, last'.sel.given).exc
          /\ files' = files ]_vars

=============================================================================
